---- MODULE Spec2Model ----
(***************************************************************************)
(* A model of the CT-Logs phishing-candidate pipeline:                     *)
(*   src/analysis/phishing_detect.py  brand similarity, features, scoring  *)
(*   src/utils/dns_twister.py         permutation client and its cache     *)
(*   src/utils/who_is.py              WHOIS registration age               *)
(*   src/certstream/listener.py       ingest, worker pool, dedup, writer   *)
(*                                                                         *)
(* Numbers.  Python floats are modelled in fixed point:                    *)
(*   points (scores)   in hundredths of a point   (1.5 points = 150)       *)
(*   entropy           in hundredths              (3.6 = 360)              *)
(*   similarity        in ten-thousandths         (0.85 = 8500)            *)
(* Python's None is the empty tuple <<>>; a present value v of a nullable  *)
(* input is the one-element tuple <<v>>.                                   *)
(* Strings are tuples of one-character strings, so that lower(), `in`      *)
(* (substring) and the similarity ratio are computed, not assumed.         *)
(***************************************************************************)
EXTENDS Integers, Sequences, FiniteSets, TLC

VARIABLES
    \* ---- configuration, read once at import time
    BRAND_DOMAINS,  \* the brand list, in file order
    \* ---- phishing_score applied to one feature vector (SpecScore)
    sc_feat,        \* the ten arguments of phishing_score
    sc_score,       \* None before the call, <<score>> after it
    \* ---- the CN mismatch block applied to one leaf_cert (SpecCnMismatch)
    fx,             \* the leaf_cert and the cn_mismatch computed for it
    \* ---- the candidate list of one work item (SpecToCheck)
    cand,           \* domain, permutations, to_check, candidates screened
    \* ---- process_message applied to one message (SpecMessage)
    inbox,          \* the message and what process_message made of it
    \* ---- the validity block applied to one leaf_cert (SpecShortLived)
    validity,       \* not_before, not_after, the clock, and short_lived
    \* ---- is_similar applied to one domain (SpecSimilar)
    sim_domain,     \* the argument of is_similar
    sim_result,     \* None before the call, <<(suspicious, brand, dist)>> after
    \* ---- the permutation client (dns_twister.py)
    permutations_cache, \* _permutations_cache: domain -> list
    perm_call,      \* per caller: the get_permutations call in flight, or None
    \* ---- callers of get_permutations on their own (SpecPerm)
    pm_result,      \* per caller: how its last call ended, None before it
    pm_calls,       \* the number of calls made so far
    pm_log,         \* history: the requests and sleeps of one call (SpecRetry);
                    \* per domain, what its fetches came to (SpecPerm)
    \* ---- the pipeline (listener.py, who_is.py)
    domain_queue,   \* the work items put and not yet taken, oldest first
    unfinished_tasks, \* domain_queue's count of items put and not marked done
    log_queue,      \* the alert records put and not yet taken, oldest first
    seen_alerts,    \* the deque of (fuzzed_domain, brand) keys, oldest first
    whois_cache,    \* who_is.whois_cache: domain -> age
    sync_whois_memo,\* the lru_cache of _sync_whois: domain -> age
    workers,        \* per process_worker task: where it waits and its locals
    writer,         \* csv_writer_worker: where it waits and its entry
    csv_file,       \* suspected_phishing.csv: its header and its data rows
    received,       \* the number of WebSocket messages handled so far
    emitted,        \* history: the key of every alert enqueued, in order
    suppressed,     \* history: the keys the dedup test turned down
    item_max,       \* history: the largest counts any finished item had
    done,           \* history: how each finished item ended
    faults,         \* history: the failures of the environment so far
    \* ---- certstream_client (SpecClient)
    client,         \* the producer task: where it waits, backoff, history
    \* ---- callers of domain_registration_age on their own (SpecWhois)
    wh,             \* whois_semaphore and the calls in flight
    \* ---- _sync_whois applied to one whois output (SpecSyncWhois)
    sw              \* the output, the clock, and the age returned

scoreVars == <<sc_feat, sc_score, fx, cand, inbox, validity>>
simVars == <<sim_domain, sim_result>>
permVars == <<permutations_cache, perm_call>>
pmVars == <<pm_result, pm_calls, pm_log>>
clientVars == <<client>>
whoisVars == <<wh, sw>>
pipeVars == <<domain_queue, unfinished_tasks, log_queue, seen_alerts,
              whois_cache,
              sync_whois_memo, workers, writer, csv_file, received,
              emitted, suppressed, item_max, done, faults>>
vars == <<BRAND_DOMAINS, sc_feat, sc_score, fx, cand, inbox, validity,
          sim_domain, sim_result,
          permutations_cache, perm_call, pm_result, pm_calls, pm_log,
          domain_queue, unfinished_tasks, log_queue, seen_alerts,
          whois_cache, sync_whois_memo, workers, writer, csv_file, received,
          emitted, suppressed, item_max, done, faults, client, wh, sw>>

None == <<>>
Some(v) == <<v>>

\* The variables of a specification while another specification runs.
ScoreIdle ==
    /\ sc_feat = None /\ sc_score = None
    /\ fx = None /\ cand = None /\ inbox = None /\ validity = None
SimIdle == sim_domain = None /\ sim_result = None
PermIdle == permutations_cache = None /\ perm_call = None
PmIdle == pm_result = None /\ pm_calls = 0 /\ pm_log = None
ClientIdle == client = None
WhoisIdle == wh = None /\ sw = None
PipeIdle ==
    /\ domain_queue = None /\ unfinished_tasks = None
    /\ log_queue = None /\ seen_alerts = None
    /\ whois_cache = None /\ sync_whois_memo = None /\ workers = None
    /\ writer = None /\ csv_file = None /\ received = 0
    /\ emitted = None /\ suppressed = None
    /\ item_max = None /\ done = None /\ faults = 0

Min(a, b) == IF a <= b THEN a ELSE b
Max(a, b) == IF a >= b THEN a ELSE b
Range(s) == {s[i] : i \in DOMAIN s}

\* A Python dict is a function on its keys.
EmptyDict == <<>>
DictSet(d, k, v) == [x \in DOMAIN d \cup {k} |-> IF x = k THEN v ELSE d[x]]
DictDel(d, k) ==
    IF DOMAIN d \ {k} = {} THEN EmptyDict
    ELSE [x \in DOMAIN d \ {k} |-> d[x]]

(***************************************************************************)
(* Scoring: src/analysis/phishing_detect.py                                *)
(***************************************************************************)

\* The free certificate authorities phishing_score penalises.
FREE_ISSUERS == {"ZeroSSL", "Let's Encrypt", "Actalis S.p.A."}

\* score_similarity with the bands tested lowest first: the 0.80 band
\* shadows the higher ones.
score_similarity_shadowed(similarity_score) ==
    IF similarity_score >= 8000 THEN 100
    ELSE IF similarity_score >= 8500 THEN 150
    ELSE IF similarity_score >= 9000 THEN 200
    ELSE 0

\* score_similarity with the points of the top and the bottom band swapped.
score_similarity_swapped(similarity_score) ==
    IF similarity_score >= 9000 THEN 100
    ELSE IF similarity_score >= 8500 THEN 150
    ELSE IF similarity_score >= 8000 THEN 200
    ELSE 0

score_similarity(similarity_score) ==
    IF similarity_score >= 9000 THEN 200
    ELSE IF similarity_score >= 8500 THEN 150
    ELSE IF similarity_score >= 8000 THEN 100
    ELSE 0

\* The entropy block of phishing_score.
entropy_points(entropy) ==
    IF entropy >= 360 THEN 150
    ELSE IF entropy >= 320 THEN 100
    ELSE IF entropy >= 280 THEN 50
    ELSE 0

\* The registration block with the `>= 0` test left out: the sentinel -1
\* falls into the `< 30` band.
registration_points_nosentinel(registration_days) ==
    IF registration_days # None
    THEN IF registration_days[1] < 30 THEN 300
         ELSE IF registration_days[1] < 90 THEN 200
         ELSE IF registration_days[1] < 360 THEN 100
         ELSE 0
    ELSE 0

\* The registration block of phishing_score.
registration_points(registration_days) ==
    IF registration_days # None /\ registration_days[1] >= 0
    THEN IF registration_days[1] < 30 THEN 300
         ELSE IF registration_days[1] < 90 THEN 200
         ELSE IF registration_days[1] < 360 THEN 100
         ELSE 0
    ELSE 0

\* The sum phishing_score accumulates before its final min().
score_sum(entropy, has_keyword, tld_suspicious, issuer, registration_days, similarity_score, cn_mismatch, ocsp_missing, short_lived, brand_in_subdomain) ==
      entropy_points(entropy)
    + (IF has_keyword THEN 100 ELSE 0)
    + (IF tld_suspicious THEN 100 ELSE 0)
    + (IF issuer \in FREE_ISSUERS THEN 100 ELSE 0)
    + (IF cn_mismatch THEN 100 ELSE 0)
    + (IF ocsp_missing THEN 100 ELSE 0)
    + (IF short_lived THEN 100 ELSE 0)
    + (IF brand_in_subdomain THEN 100 ELSE 0)
    + registration_points(registration_days)
    + score_similarity(similarity_score)

\* phishing_score returning the sum without the final min(score, 10).
phishing_score_unclamped(entropy, has_keyword, tld_suspicious, issuer, registration_days, similarity_score, cn_mismatch, ocsp_missing, short_lived, brand_in_subdomain) ==
    score_sum(entropy, has_keyword, tld_suspicious, issuer, registration_days,
              similarity_score, cn_mismatch, ocsp_missing, short_lived,
              brand_in_subdomain)

phishing_score(entropy, has_keyword, tld_suspicious, issuer, registration_days, similarity_score, cn_mismatch, ocsp_missing, short_lived, brand_in_subdomain) ==
    Min(score_sum(entropy, has_keyword, tld_suspicious, issuer,
                  registration_days, similarity_score, cn_mismatch,
                  ocsp_missing, short_lived, brand_in_subdomain), 1000)

\* phishing_score applied to a feature record.
ScoreOf(f) ==
    phishing_score(f.entropy, f.has_keyword, f.tld_suspicious, f.issuer,
                   f.registration_days, f.similarity_score, f.cn_mismatch,
                   f.ocsp_missing, f.short_lived, f.brand_in_subdomain)

(***************************************************************************)
(* SpecScore: phishing_score is called once on a feature vector drawn from *)
(* values on, just below and just above every threshold of the code and of *)
(* the documented rubric.                                                  *)
(***************************************************************************)
EntropyValues == {0, 279, 280, 310, 319, 320, 340, 359, 360, 370}
RegistrationValues ==
    {None} \cup {Some(d) : d \in {-1, 0, 3, 13, 14, 29, 30, 59, 60, 89, 90,
                                  179, 180, 200, 359, 360, 4000}}
SimilarityValues == {0, 7999, 8000, 8499, 8500, 8999, 9000, 9500, 10000}
IssuerValues == {"Let's Encrypt", "ZeroSSL", "Actalis S.p.A.", "Unknown"}

FeatureVectors ==
    [entropy : EntropyValues, has_keyword : BOOLEAN, tld_suspicious : BOOLEAN,
     issuer : IssuerValues, registration_days : RegistrationValues,
     similarity_score : SimilarityValues, cn_mismatch : BOOLEAN,
     ocsp_missing : BOOLEAN, short_lived : BOOLEAN,
     brand_in_subdomain : BOOLEAN]

ScoreInit ==
    /\ sc_feat \in FeatureVectors
    /\ sc_score = None
    /\ fx = None
    /\ cand = None
    /\ inbox = None
    /\ validity = None
    /\ BRAND_DOMAINS = <<>>
    /\ SimIdle /\ PermIdle /\ PmIdle /\ PipeIdle /\ ClientIdle /\ WhoisIdle

ScoreCall ==
    /\ sc_score = None
    /\ sc_score' = Some(ScoreOf(sc_feat))
    /\ UNCHANGED <<sc_feat, fx, cand, inbox, validity, BRAND_DOMAINS, clientVars, whoisVars, simVars, permVars, pmVars, pipeVars>>

ScoreNext == ScoreCall

SpecScore == ScoreInit /\ [][ScoreNext]_vars

(***************************************************************************)
(* Claims about phishing_score, checked under SpecScore.                   *)
(***************************************************************************)
Scored == sc_score # None

\* The points of the highest band `v` reaches, 0 when it reaches none.
\* A band is [at |-> lower limit, pts |-> points].
HighestBand(v, bands) ==
    LET hit == {b \in bands : v >= b.at}
    IN  IF hit = {} THEN 0
        ELSE (CHOOSE b \in hit : \A c \in hit : c.at <= b.at).pts

\* The points of the youngest registration band a known age falls in.
\* A band is [below |-> exclusive upper limit in days, pts |-> points].
YoungestBand(days, bands) ==
    IF days = None \/ days[1] < 0 THEN 0
    ELSE LET hit == {b \in bands : days[1] < b.below}
         IN  IF hit = {} THEN 0
             ELSE (CHOOSE b \in hit : \A c \in hit : b.below <= c.below).pts

Flag(b, pts) == IF b THEN pts ELSE 0

\* The rubric as the specification documents it (section 4.4.5).
DocumentedRubric(f) ==
      HighestBand(f.entropy, {[at |-> 370, pts |-> 300],
                              [at |-> 340, pts |-> 200],
                              [at |-> 310, pts |-> 100]})
    + Flag(f.has_keyword, 200)
    + Flag(f.tld_suspicious, 100)
    + Flag(f.issuer \in {"ZeroSSL", "Let's Encrypt", "Actalis S.p.A."}, 100)
    + Flag(f.cn_mismatch, 150)
    + Flag(f.ocsp_missing, 150)
    + Flag(f.short_lived, 150)
    + Flag(f.brand_in_subdomain, 100)
    + YoungestBand(f.registration_days, {[below |-> 14, pts |-> 300],
                                         [below |-> 60, pts |-> 200],
                                         [below |-> 180, pts |-> 100]})
    + HighestBand(f.similarity_score, {[at |-> 9000, pts |-> 100],
                                       [at |-> 8500, pts |-> 75],
                                       [at |-> 8000, pts |-> 50]})

\* The rubric with the thresholds and weights the code applies.
AmendedRubric(f) ==
      HighestBand(f.entropy, {[at |-> 360, pts |-> 150],
                              [at |-> 320, pts |-> 100],
                              [at |-> 280, pts |-> 50]})
    + Flag(f.has_keyword, 100)
    + Flag(f.tld_suspicious, 100)
    + Flag(f.issuer \in {"ZeroSSL", "Let's Encrypt", "Actalis S.p.A."}, 100)
    + Flag(f.cn_mismatch, 100)
    + Flag(f.ocsp_missing, 100)
    + Flag(f.short_lived, 100)
    + Flag(f.brand_in_subdomain, 100)
    + YoungestBand(f.registration_days, {[below |-> 30, pts |-> 300],
                                         [below |-> 90, pts |-> 200],
                                         [below |-> 360, pts |-> 100]})
    + HighestBand(f.similarity_score, {[at |-> 9000, pts |-> 200],
                                       [at |-> 8500, pts |-> 150],
                                       [at |-> 8000, pts |-> 100]})

Clamp(x, lo, hi) == IF x < lo THEN lo ELSE IF x > hi THEN hi ELSE x

\* The feature vector of scenario S2: entropy 3.1, Let's Encrypt, registered
\* 3 days ago, similarity 0.95, every boolean false.
ScenarioS2 ==
    [entropy |-> 310, has_keyword |-> FALSE, tld_suspicious |-> FALSE,
     issuer |-> "Let's Encrypt", registration_days |-> Some(3),
     similarity_score |-> 9500, cn_mismatch |-> FALSE,
     ocsp_missing |-> FALSE, short_lived |-> FALSE,
     brand_in_subdomain |-> FALSE]

\* C2: whatever the ten input features are (registration_days -1 and None
\* included), the score phishing_score returns lies in [0, 10].
C2_ScoreInRange ==
    Scored => sc_score[1] >= 0 /\ sc_score[1] <= 1000

\* C2 witness: a scored vector with no registration age whose signals add
\* up to more than 10 points, returned as exactly 10.
C2_Witness_SumAboveTen ==
    /\ Scored
    /\ sc_feat.registration_days = None
    /\ AmendedRubric(sc_feat) > 1000
    /\ sc_score[1] = 1000

AgesFrom(d) == {a \in RegistrationValues : a # None /\ a[1] >= d}

WithAge(f, a) == [f EXCEPT !.registration_days = a]

C5_ScoreMonotonic ==
    Scored =>
        /\ sc_feat.has_keyword =>
             ScoreOf([sc_feat EXCEPT !.has_keyword = FALSE]) <= sc_score[1]
        /\ sc_feat.tld_suspicious =>
             ScoreOf([sc_feat EXCEPT !.tld_suspicious = FALSE]) <= sc_score[1]
        /\ sc_feat.cn_mismatch =>
             ScoreOf([sc_feat EXCEPT !.cn_mismatch = FALSE]) <= sc_score[1]
        /\ sc_feat.ocsp_missing =>
             ScoreOf([sc_feat EXCEPT !.ocsp_missing = FALSE]) <= sc_score[1]
        /\ sc_feat.short_lived =>
             ScoreOf([sc_feat EXCEPT !.short_lived = FALSE]) <= sc_score[1]
        /\ sc_feat.brand_in_subdomain =>
             ScoreOf([sc_feat EXCEPT !.brand_in_subdomain = FALSE])
                 <= sc_score[1]
        /\ \A s \in SimilarityValues :
             s <= sc_feat.similarity_score =>
                 ScoreOf([sc_feat EXCEPT !.similarity_score = s])
                     <= sc_score[1]

\* C5 witness: a scored vector with every boolean signal true and the
\* similarity in the middle band, below the cap, so that each flip and
\* each lower band changes the score.
C5_Witness_AllSignalsTrue ==
    /\ Scored
    /\ sc_feat.has_keyword /\ sc_feat.tld_suspicious /\ sc_feat.cn_mismatch
    /\ sc_feat.ocsp_missing /\ sc_feat.short_lived
    /\ sc_feat.brand_in_subdomain
    /\ sc_feat.similarity_score = 8500
    /\ sc_score[1] < 1000
    /\ ScoreOf([sc_feat EXCEPT !.has_keyword = FALSE]) < sc_score[1]
    /\ ScoreOf([sc_feat EXCEPT !.similarity_score = 8000]) < sc_score[1]

(***************************************************************************)
(* Strings                                                                 *)
(***************************************************************************)

\* str.lower() on one character, for the letters the model uses.
LowerChar(c) ==
    CASE c = "A" -> "a"
      [] c = "B" -> "b"
      [] c = "C" -> "c"
      [] c = "O" -> "o"
      [] c = "P" -> "p"
      [] c = "S" -> "s"
      [] OTHER -> c

\* str.lower()
Lower(s) == [i \in 1..Len(s) |-> LowerChar(s[i])]

\* Python's `p in s` for strings.
IsSubstring(p, s) ==
    \E i \in 0..(Len(s) - Len(p)) : SubSeq(s, i + 1, i + Len(p)) = p

\* One row of the longest-common-subsequence table: `prev` is the row of the
\* previous character of the first string, `acc` the part of the new row
\* built so far (both start with column 0).  Each entry is computed before
\* the next one is asked for (the test on `next`), so that long names do
\* not pile up unevaluated entries.
RECURSIVE LcsRow(_, _, _, _, _)
LcsRow(prev, ch, b, j, acc) ==
    IF j > Len(b) THEN acc
    ELSE LET next == Append(acc, IF ch = b[j] THEN prev[j] + 1
                                 ELSE Max(prev[j + 1], acc[j]))
         IN  IF Len(next) = j + 1 THEN LcsRow(prev, ch, b, j + 1, next)
             ELSE next

\* The last row of the table after the characters lo..hi of a, from the
\* row `prev` before them.  The range is halved rather than walked, so that
\* a name of 120 characters needs a nesting of 7 and not of 120.
RECURSIVE LcsRows(_, _, _, _, _)
LcsRows(a, b, lo, hi, prev) ==
    IF lo > hi THEN prev
    ELSE IF lo = hi THEN LcsRow(prev, a[lo], b, 1, <<0>>)
    ELSE LET mid == (lo + hi) \div 2
             first == LcsRows(a, b, lo, mid, prev)
         IN  IF Len(first) = Len(b) + 1
             THEN LcsRows(a, b, mid + 1, hi, first)
             ELSE first

\* The length of a longest common subsequence of a and b.
LcsLen(a, b) ==
    LcsRows(a, b, 1, Len(a), [j \in 1..(Len(b) + 1) |-> 0])[Len(b) + 1]

\* rapidfuzz.fuzz.ratio(a, b) / 100.0: the normalized Indel similarity
\* 2 * LCS(a, b) / (|a| + |b|), and 1.0 for two empty strings, in
\* ten-thousandths rounded down (every threshold it is compared with is a
\* whole number of ten-thousandths, so the rounding changes no comparison).
ratio(a, b) ==
    IF Len(a) + Len(b) = 0 THEN 10000
    ELSE (2 * LcsLen(a, b) * 10000) \div (Len(a) + Len(b))

(***************************************************************************)
(* Brand similarity: src/analysis/phishing_detect.py                       *)
(***************************************************************************)

\* The benign hosting patterns.  The code lists some 300 cloud and CDN host
\* names (s3.amazonaws.com, github.io, ...); the model keeps two patterns
\* over its own alphabet, matched the same way.
FALSE_POSITIVE_PATTERNS == << <<".", "b">>, <<"c", "c">> >>

\* is_known_false_positive matching the patterns against the domain as
\* given, without lower().
is_known_false_positive_cased(domain) ==
    \E k \in 1..Len(FALSE_POSITIVE_PATTERNS) :
        IsSubstring(FALSE_POSITIVE_PATTERNS[k], domain)

is_known_false_positive(domain) ==
    \E k \in 1..Len(FALSE_POSITIVE_PATTERNS) :
        IsSubstring(FALSE_POSITIVE_PATTERNS[k], Lower(domain))

\* The default of is_similar's threshold parameter, 0.8.
THRESHOLD == 8000

\* The loop of is_similar without the `domain.lower() != brand.lower()`
\* test.
RECURSIVE is_similar_scan_nodiff(_, _)
is_similar_scan_nodiff(domain, i) ==
    IF i > Len(BRAND_DOMAINS) THEN <<FALSE, None, None>>
    ELSE LET brand == BRAND_DOMAINS[i]
             dist == ratio(Lower(domain), Lower(brand))
         IN  IF dist >= THRESHOLD
             THEN IF is_known_false_positive(domain)
                  THEN <<FALSE, None, None>>
                  ELSE <<TRUE, brand, dist>>
             ELSE is_similar_scan_nodiff(domain, i + 1)

\* The loop of is_similar keeping the last matching brand instead of
\* returning at the first.
RECURSIVE is_similar_scan_last(_, _)
is_similar_scan_last(domain, i) ==
    IF i > Len(BRAND_DOMAINS) THEN <<FALSE, None, None>>
    ELSE LET brand == BRAND_DOMAINS[i]
             dist == ratio(Lower(domain), Lower(brand))
             rest == is_similar_scan_last(domain, i + 1)
         IN  IF dist >= THRESHOLD /\ Lower(domain) # Lower(brand)
             THEN IF is_known_false_positive(domain)
                  THEN <<FALSE, None, None>>
                  ELSE IF rest[1] THEN rest ELSE <<TRUE, brand, dist>>
             ELSE rest

\* The loop of is_similar from the i-th brand on.
RECURSIVE is_similar_scan(_, _)
is_similar_scan(domain, i) ==
    IF i > Len(BRAND_DOMAINS) THEN <<FALSE, None, None>>
    ELSE LET brand == BRAND_DOMAINS[i]
             dist == ratio(Lower(domain), Lower(brand))
         IN  IF dist >= THRESHOLD /\ Lower(domain) # Lower(brand)
             THEN IF is_known_false_positive(domain)
                  THEN <<FALSE, None, None>>
                  ELSE <<TRUE, brand, dist>>
             ELSE is_similar_scan(domain, i + 1)

\* is_similar(domain): (suspicious, brand, dist)
is_similar(domain) == is_similar_scan(domain, 1)

(***************************************************************************)
(* SpecSimilar: is_similar is called once on a domain drawn from every     *)
(* string of at most MaxDomainLen characters, against a brand list drawn   *)
(* from the lists of at most MaxBrands brands of a pool.                   *)
(***************************************************************************)
MaxDomainLen == 4
MaxBrands == 2

SimAlphabet == {"a", "b", "A", "."}

\* All strings over `alphabet` of at most n characters.
StringsUpTo(alphabet, n) == UNION {[1..k -> alphabet] : k \in 0..n}

BrandPool ==
    { <<"a", "b">>, <<"a", "b", "b">>, <<"A", "b", "a">>, <<"b", ".", "a">> }

BrandLists == UNION {[1..k -> BrandPool] : k \in 0..MaxBrands}

SimInit ==
    /\ BRAND_DOMAINS \in BrandLists
    /\ sim_domain \in StringsUpTo(SimAlphabet, MaxDomainLen)
    /\ sim_result = None
    /\ ScoreIdle /\ PermIdle /\ PmIdle /\ PipeIdle /\ ClientIdle /\ WhoisIdle

SimCall ==
    /\ sim_result = None
    /\ sim_result' = Some(is_similar(sim_domain))
    /\ UNCHANGED <<sim_domain, BRAND_DOMAINS, clientVars, whoisVars, scoreVars, permVars, pmVars, pipeVars>>

SimNext == SimCall

SpecSimilar == SimInit /\ [][SimNext]_vars

(***************************************************************************)
(* Claims about is_similar, checked under SpecSimilar.                     *)
(***************************************************************************)
Compared == sim_result # None

NoMatch == <<FALSE, None, None>>

\* The domain is, up to case, the i-th brand.
SameAsBrand(domain, i) == Lower(domain) = Lower(BRAND_DOMAINS[i])

\* The i-th brand qualifies as a match of the domain: similarity at least
\* 0.8, different strings, domain not a known false positive.
Qualifies(domain, i) ==
    /\ ratio(Lower(domain), Lower(BRAND_DOMAINS[i])) >= 8000
    /\ ~SameAsBrand(domain, i)
    /\ ~is_known_false_positive(domain)

\* C6 (as claimed): whenever the domain is, up to case, a brand of the
\* list, is_similar returns (false, none, none).
C6_BrandDomainNeverMatches ==
    (Compared /\ \E i \in 1..Len(BRAND_DOMAINS) : SameAsBrand(sim_domain, i))
        => sim_result[1] = NoMatch

\* C6 (amended): whenever the domain is, up to case, a brand of the list,
\* is_similar never returns that brand (nor any brand equal to the domain up
\* to case) as the match, and it returns (false, none, none) unless another
\* brand of the list, different from the domain, is at least 0.8 similar to
\* it; so a list whose only brand is the domain gives no match.
C6_BrandDomainNeverMatchesItself ==
    (Compared /\ \E i \in 1..Len(BRAND_DOMAINS) : SameAsBrand(sim_domain, i))
        => /\ sim_result[1][1] =>
                Lower(sim_result[1][2]) # Lower(sim_domain)
           /\ (\A i \in 1..Len(BRAND_DOMAINS) :
                   \/ SameAsBrand(sim_domain, i)
                   \/ ratio(Lower(sim_domain), Lower(BRAND_DOMAINS[i])) < 8000)
                => sim_result[1] = NoMatch

\* C6 witness: a domain that differs from the only brand of the list in
\* case alone has been compared and gave no match.
C6_Witness_OnlyBrandIsTheDomain ==
    /\ Compared
    /\ Len(BRAND_DOMAINS) = 1
    /\ SameAsBrand(sim_domain, 1)
    /\ sim_domain # BRAND_DOMAINS[1]
    /\ ~is_known_false_positive(sim_domain)
    /\ sim_result[1] = NoMatch

\* C7: is_similar returns (true, b, s) for the first brand b of the list
\* that qualifies (s >= 0.8, strings differ, domain not a known false
\* positive), s being its similarity, and (false, none, none) when no brand
\* qualifies.
C7_FirstQualifyingBrandWins ==
    Compared =>
        LET Q == {i \in 1..Len(BRAND_DOMAINS) : Qualifies(sim_domain, i)}
        IN  IF Q = {} THEN sim_result[1] = NoMatch
            ELSE LET first == CHOOSE i \in Q : \A j \in Q : i <= j
                 IN  sim_result[1] =
                         <<TRUE, BRAND_DOMAINS[first],
                           ratio(Lower(sim_domain),
                                 Lower(BRAND_DOMAINS[first]))>>

\* C7 witness: two different brands both qualify and the first one has been
\* returned.
C7_Witness_TwoBrandsQualify ==
    /\ Compared
    /\ Len(BRAND_DOMAINS) = 2
    /\ BRAND_DOMAINS[1] # BRAND_DOMAINS[2]
    /\ Qualifies(sim_domain, 1) /\ Qualifies(sim_domain, 2)
    /\ sim_result[1][1]
    /\ sim_result[1][2] = BRAND_DOMAINS[1]

(***************************************************************************)
(* Feature extraction: src/analysis/phishing_detect.py                     *)
(***************************************************************************)

\* The index of the first "." of s, 0 when it has none.
FirstDot(s) ==
    IF \E i \in 1..Len(s) : s[i] = "."
    THEN CHOOSE i \in 1..Len(s) : s[i] = "." /\ \A j \in 1..(i - 1) : s[j] # "."
    ELSE 0

\* s.split(".")
RECURSIVE Split(_)
Split(s) ==
    IF FirstDot(s) = 0 THEN <<s>>
    ELSE <<SubSeq(s, 1, FirstDot(s) - 1)>>
             \o Split(SubSeq(s, FirstDot(s) + 1, Len(s)))

\* ".".join(parts)
RECURSIVE Join(_)
Join(parts) ==
    IF Len(parts) = 0 THEN <<>>
    ELSE IF Len(parts) = 1 THEN parts[1]
    ELSE parts[1] \o <<".">> \o Join(Tail(parts))

\* s.replace("*.", "")
RECURSIVE RemoveWildcards(_)
RemoveWildcards(s) ==
    IF Len(s) = 0 THEN s
    ELSE IF Len(s) >= 2 /\ s[1] = "*" /\ s[2] = "."
         THEN RemoveWildcards(SubSeq(s, 3, Len(s)))
         ELSE <<s[1]>> \o RemoveWildcards(Tail(s))

StartsWith(s, p) == Len(s) >= Len(p) /\ SubSeq(s, 1, Len(p)) = p
EndsWith(s, p) ==
    Len(s) >= Len(p) /\ SubSeq(s, Len(s) - Len(p) + 1, Len(s)) = p

\* has_brand_in_subdomain(domain)[0]
has_brand_in_subdomain(domain) ==
    LET parts == Split(Lower(domain))
    IN  IF Len(parts) < 3 THEN FALSE
        ELSE LET subdomain == Join(SubSeq(parts, 1, Len(parts) - 2))
             IN  \E i \in 1..Len(BRAND_DOMAINS) :
                     IsSubstring(Lower(BRAND_DOMAINS[i]), subdomain)

\* The phishing keywords.  The code lists 18 words (login, verify, ...);
\* the model keeps one word over its own alphabet, matched the same way.
SUSPICIOUS_WORDS == { <<"b", "b", "b">> }

contains_suspicious_word(domain) ==
    \E word \in SUSPICIOUS_WORDS : IsSubstring(word, Lower(domain))

\* The abused top-level domains.  The code lists some 80 labels (tk, xyz,
\* ...); the model keeps one label over its own alphabet.
TLD_SUSPICIOUS == { <<"b">> }

\* log2(k) in millionths, k = 1..12.
LOG2_MICRO ==
    <<0, 1000000, 1584963, 2000000, 2321928, 2584963, 2807355, 3000000,
      3169925, 3321928, 3459432, 3584963>>

\* round(calculate_entropy(s), 2) in hundredths, for strings of up to 12
\* characters: H = log2(n) - (sum over characters of c * log2(c)) / n,
\* where c is the number of occurrences of the character.
calculate_entropy(s) ==
    IF Len(s) = 0 THEN 0
    ELSE LET chars == Range(s)
             count(ch) == Cardinality({i \in 1..Len(s) : s[i] = ch})
             RECURSIVE weighted(_)
             weighted(S) ==
                 IF S = {} THEN 0
                 ELSE LET ch == CHOOSE x \in S : TRUE
                      IN  count(ch) * LOG2_MICRO[count(ch)]
                              + weighted(S \ {ch})
             micro == LOG2_MICRO[Len(s)] - (weighted(chars) \div Len(s))
         IN  (micro + 5000) \div 10000

\* A leaf certificate as extract_features reads it:
\*   subject_cn     subject.CN, the empty string when missing
\*   san            None when extensions has no subjectAltName, else <<the
\*                  names of its entries that hold "DNS:", prefix removed>>
\*   aia            None when extensions has no authorityInfoAccess, else
\*                  <<its text>>
\*   crl            whether extensions has crlDistributionPoints
\*   not_before, not_after
\*                  [kind |-> "absent" | "badstr" | "iso" | "epoch",
\*                   days |-> whole days from now to the date]
EmptyDate == [kind |-> "absent", days |-> 0]
EmptyCert ==
    [subject_cn |-> <<>>, san |-> None, aia |-> None, crl |-> FALSE,
     not_before |-> EmptyDate, not_after |-> EmptyDate,
     extensions_null |-> FALSE]

\* extract_features raises on this cert: "extensions" is there and is
\* null, so that `"subjectAltName" in extensions` is a TypeError.
extract_raises(cert) == cert.extensions_null

\* normalize_domain, local to extract_features
normalize_domain(d) == RemoveWildcards(Lower(d))

\* The CN mismatch block of extract_features.
cn_mismatch_of(cert) ==
    LET san == IF cert.san = None THEN <<>> ELSE cert.san[1]
        cn_normalized == normalize_domain(cert.subject_cn)
    IN  IF cert.subject_cn # <<>>
        THEN ~ \E i \in 1..Len(san) :
                   \/ normalize_domain(san[i]) = cn_normalized
                   \/ /\ StartsWith(san[i], <<"*", ".">>)
                      /\ EndsWith(cn_normalized, normalize_domain(san[i]))
        ELSE FALSE

\* The OCSP / CRL block of extract_features.
ocsp_missing_of(cert) ==
    /\ ~ (cert.aia # None
            /\ IsSubstring(<<"o", "c", "s", "p">>, Lower(cert.aia[1])))
    /\ ~ cert.crl

\* The validity block of extract_features: a date that does not parse
\* raises, and the except clause leaves short_lived False.
short_lived_of(cert) ==
    IF cert.not_before.kind = "absent" \/ cert.not_after.kind = "absent"
    THEN FALSE
    ELSE IF cert.not_before.kind = "badstr" \/ cert.not_after.kind = "badstr"
    THEN FALSE
    ELSE cert.not_after.days <= 30

\* extract_features(domain, issuer, registration_days, similarity_score,
\* cert): the nine values it returns, as a record.  registration_days is
\* the integer domain_registration_age returned.
extract_features(domain, issuer, registration_days, similarity_score, cert) ==
    LET parts == Split(domain)
        tld == parts[Len(parts)]
        tld_suspicious == tld \in TLD_SUSPICIOUS
        has_keyword == contains_suspicious_word(domain)
        entropy == calculate_entropy(domain)
        cn_mismatch == cn_mismatch_of(cert)
        ocsp_missing == ocsp_missing_of(cert)
        short_lived == short_lived_of(cert)
        brand_in_subdomain == has_brand_in_subdomain(domain)
    IN  [tld |-> tld, tld_suspicious |-> tld_suspicious,
         has_keyword |-> has_keyword, entropy |-> entropy,
         cn_mismatch |-> cn_mismatch, ocsp_missing |-> ocsp_missing,
         short_lived |-> short_lived,
         brand_in_subdomain |-> brand_in_subdomain,
         score |-> phishing_score(entropy, has_keyword, tld_suspicious,
                                  issuer, Some(registration_days),
                                  similarity_score, cn_mismatch,
                                  ocsp_missing, short_lived,
                                  brand_in_subdomain)]

(***************************************************************************)
(* The permutation client: src/utils/dns_twister.py                        *)
(***************************************************************************)

\* The number of concurrent tasks: the workers of listener.main, which are
\* the callers of get_permutations (the code starts 10).
NumWorkers == 2
Workers == 1..NumWorkers

\* Names over the characters a, b, ".", "*".
N_ab == <<"a", "b">>
N_wild_ab == <<"*", ".", "a", "b">>
N_abb == <<"a", "b", "b">>
N_abbb == <<"a", "b", "b", "b">>
N_ab_B == <<"a", "b", ".", "B">>
N_ba == <<"b", "a">>
N_Ab == <<"A", "b">>

\* The domains get_permutations is called with.
PermKeys == {N_ab, N_ba}

\* The defaults of get_permutations' retries and backoff parameters.
RETRIES == 3
BACKOFF == 2

\* The length get_permutations cuts its fresh result to (the code's
\* filtered[:30]).
PERM_LIMIT == 3

\* The most entries one fuzz response carries.
MaxFuzz == 4

\* The entries the fuzz endpoint reports, in its order; an entry is None
\* when it has no "domain" key.
FuzzPool == <<Some(N_abbb), Some(N_ab_B), Some(N_abb), Some(N_ba), None>>

FuzzEntry(i) == FuzzPool[((i - 1) % Len(FuzzPool)) + 1]

\* The HTTP responses of the two endpoints.  status 0 is a timeout or a
\* network error; body is the decoded JSON: for to_hex whether it has
\* domain_as_hexadecimal, for fuzz its fuzzy_domains.
HexResponses ==
    {[status |-> 200, has_hex |-> TRUE], [status |-> 200, has_hex |-> FALSE],
     [status |-> 404, has_hex |-> FALSE], [status |-> 503, has_hex |-> FALSE],
     [status |-> 0, has_hex |-> FALSE]}

FuzzResponses ==
    {[status |-> 200, fuzzy_domains |-> [i \in 1..k |-> FuzzEntry(i)]] :
         k \in 0..MaxFuzz}
    \cup {[status |-> st, fuzzy_domains |-> <<>>] : st \in {404, 503, 0}}

\* response.raise_for_status() raises, or the request itself did.
RequestFails(resp) == resp.status = 0 \/ resp.status >= 400

\* s[:n]
Take(s, n) == SubSeq(s, 1, Min(Len(s), n))

\* [entry.get("domain") for entry in fuzzy_list if entry.get("domain")]
filtered_domains(fuzzy_list) ==
    LET kept == SelectSeq(fuzzy_list, LAMBDA e : e # None /\ e[1] # <<>>)
    IN  [i \in 1..Len(kept) |-> kept[i][1]]

\* How a call of get_permutations stands after a step:
\*   call     the call still in flight (None when it ended):
\*            [domain, stage |-> "to_hex" | "fuzz", attempt, sleeping,
\*             delay], delay being the seconds of the last sleep
\*   cache    _permutations_cache after the step
\*   outcome  None while in flight, else [kind |-> "return", value |-> list]
\*            or [kind |-> "raise"]
Running(call, cache) == [call |-> Some(call), cache |-> cache, outcome |-> None]
Returns(value, cache) ==
    [call |-> None, cache |-> cache,
     outcome |-> Some([kind |-> "return", value |-> value])]
Raises(cache) ==
    [call |-> None, cache |-> cache,
     outcome |-> Some([kind |-> "raise", value |-> <<>>])]

\* get_permutations up to its first request: the cache lookup.
perm_begin(cache, domain) ==
    IF domain \in DOMAIN cache
    THEN Returns(cache[domain], cache)
    ELSE Running([domain |-> domain, stage |-> "to_hex", attempt |-> 0,
                  sleeping |-> FALSE, delay |-> 0], cache)

\* The last failure is remembered: the cache gets an empty list.
perm_failed_cached(call, cache) ==
    IF call.attempt = RETRIES - 1
    THEN Raises(DictSet(cache, call.domain, <<>>))
    ELSE Running([call EXCEPT !.sleeping = TRUE,
                              !.delay = BACKOFF ^ call.attempt], cache)

\* The except clause gives up one attempt late.
perm_failed_late(call, cache) ==
    IF call.attempt = RETRIES
    THEN Raises(cache)
    ELSE Running([call EXCEPT !.sleeping = TRUE,
                              !.delay = BACKOFF ^ call.attempt], cache)

\* The except clause of either retry loop: re-raise on the last attempt,
\* else sleep backoff ** attempt.
perm_failed(call, cache) ==
    IF call.attempt = RETRIES - 1
    THEN Raises(cache)
    ELSE Running([call EXCEPT !.sleeping = TRUE,
                              !.delay = BACKOFF ^ call.attempt], cache)

\* A 200 response of the fuzz endpoint: filter, cache, return the cut list.
perm_fuzz_ok(call, cache, resp) ==
    LET filtered == filtered_domains(resp.fuzzy_domains)
    IN  Returns(Take(filtered, PERM_LIMIT),
                DictSet(cache, call.domain, filtered))

\* The response to the request in flight arrives.
perm_response(call, cache, resp) ==
    IF RequestFails(resp) THEN perm_failed(call, cache)
    ELSE IF call.stage = "to_hex"
    THEN IF resp.has_hex
         THEN Running([call EXCEPT !.stage = "fuzz", !.attempt = 0], cache)
         ELSE Raises(cache)    \* data['domain_as_hexadecimal']: KeyError
    ELSE perm_fuzz_ok(call, cache, resp)

\* asyncio.sleep(backoff ** attempt) is over: the next attempt is sent.
perm_wake(call, cache) ==
    Running([call EXCEPT !.attempt = @ + 1, !.sleeping = FALSE], cache)

\* The responses the endpoint of the call's stage can give.
ResponsesFor(call) ==
    IF call.stage = "to_hex" THEN HexResponses ELSE FuzzResponses

\* Every way the call in flight can end, whatever the service answers from
\* here on: the steps perm_response and perm_wake, taken until an outcome.
RECURSIVE perm_finish(_, _)
perm_finish(call, cache) ==
    IF call.sleeping
    THEN perm_finish(perm_wake(call, cache).call[1], cache)
    ELSE UNION {LET r == perm_response(call, cache, resp)
                IN  IF r.outcome = None THEN perm_finish(r.call[1], r.cache)
                    ELSE {r} : resp \in ResponsesFor(call)}

(***************************************************************************)
(* SpecPerm: NumWorkers tasks call get_permutations, MaxCalls times in     *)
(* all, on domains of PermKeys.                                            *)
(***************************************************************************)
MaxCalls == 3

\* pm_log[d] under SpecPerm, history of the calls that queried the service
\* for d:
\*   returned   None, or <<the list the last call that succeeded returned>>
\*   failed     some call has raised
\*   refetched  a call has missed the cache after one had raised
NoFetch == [returned |-> None, failed |-> FALSE, refetched |-> FALSE]

PermInit ==
    /\ permutations_cache = EmptyDict
    /\ perm_call = [c \in Workers |-> None]
    /\ pm_result = [c \in Workers |-> None]
    /\ pm_calls = 0
    /\ pm_log = [d \in PermKeys |-> NoFetch]
    /\ BRAND_DOMAINS = <<>>
    /\ ScoreIdle /\ SimIdle /\ PipeIdle /\ ClientIdle /\ WhoisIdle

\* The step `r` of caller c's call is taken.
PmApply(c, r, cached) ==
    /\ permutations_cache' = r.cache
    /\ perm_call' = [perm_call EXCEPT ![c] = r.call]
    /\ pm_result' =
           [pm_result EXCEPT
               ![c] = IF r.outcome = None THEN None
                      ELSE Some([kind |-> r.outcome[1].kind,
                                 value |-> r.outcome[1].value,
                                 cached |-> cached])]
    /\ UNCHANGED <<BRAND_DOMAINS, clientVars, whoisVars, scoreVars, simVars, pipeVars>>

PmCall(c, d) ==
    /\ perm_call[c] = None
    /\ pm_calls < MaxCalls
    /\ pm_calls' = pm_calls + 1
    /\ PmApply(c, perm_begin(permutations_cache, d),
               d \in DOMAIN permutations_cache)
    /\ pm_log' = IF d \notin DOMAIN permutations_cache /\ pm_log[d].failed
                 THEN [pm_log EXCEPT ![d].refetched = TRUE]
                 ELSE pm_log

PmResponse(c, resp) ==
    /\ perm_call[c] # None
    /\ ~perm_call[c][1].sleeping
    /\ resp \in ResponsesFor(perm_call[c][1])
    /\ LET r == perm_response(perm_call[c][1], permutations_cache, resp)
       IN  /\ PmApply(c, r, FALSE)
           /\ pm_log' =
                  IF r.outcome = None THEN pm_log
                  ELSE IF r.outcome[1].kind = "return"
                  THEN [pm_log EXCEPT ![perm_call[c][1].domain].returned =
                                          Some(r.outcome[1].value)]
                  ELSE [pm_log EXCEPT ![perm_call[c][1].domain].failed = TRUE]
    /\ UNCHANGED pm_calls

PmWake(c) ==
    /\ perm_call[c] # None
    /\ perm_call[c][1].sleeping
    /\ PmApply(c, perm_wake(perm_call[c][1], permutations_cache), FALSE)
    /\ UNCHANGED <<pm_calls, pm_log>>

PermNext ==
    \E c \in Workers :
        \/ \E d \in PermKeys : PmCall(c, d)
        \/ \E resp \in HexResponses \cup FuzzResponses : PmResponse(c, resp)
        \/ PmWake(c)

SpecPerm == PermInit /\ [][PermNext]_vars

(***************************************************************************)
(* Claims about get_permutations, checked under SpecPerm.                  *)
(***************************************************************************)

\* C9: every list get_permutations returns has at most 30 entries (here
\* PERM_LIMIT), on the call that queries the service and on every later
\* call answered from the cache.
C9_ReturnedListWithinLimit ==
    \A c \in Workers :
        (pm_result[c] # None /\ pm_result[c][1].kind = "return")
            => Len(pm_result[c][1].value) <= PERM_LIMIT

(***************************************************************************)
(* The pipeline: src/certstream/listener.py, with the WHOIS client of      *)
(* src/utils/who_is.py.                                                    *)
(*                                                                         *)
(* The tasks run on one asyncio event loop: a task runs until it awaits    *)
(* something that is not ready.  An HTTP request, asyncio.sleep and        *)
(* asyncio.to_thread suspend it; get() on a non-empty queue, put() on an   *)
(* unbounded queue, a free semaphore and a cache hit do not.  Each action  *)
(* below is one such run of one task, from where it was suspended to       *)
(* where it suspends next.  One exception: the requests and sleeps of one  *)
(* get_permutations call touch nothing but the call itself, so the         *)
(* pipeline takes what is left of a call in one step (SpecPerm takes it    *)
(* request by request).                                                    *)
(***************************************************************************)

\* The capacity of seen_alerts (the code's deque(maxlen=10000)).
SEEN_MAXLEN == 2

\* The length to_check is cut to (the code's list(to_check)[:30]).
TO_CHECK_LIMIT == 3

\* The size of `processed` at which the candidate loop breaks (the code's
\* len(processed) >= 20).
PROCESSED_LIMIT == 2

\* The number of WebSocket messages a run handles.
MaxMessages == 2

\* The most failures the environment produces in a run, of both kinds
\* together: appends to the CSV file that fail, entries of whois_cache
\* that expire.
MaxFaults == 1

\* The limits of process_domain's validation.
MAX_LABELS == 10
MAX_DOMAIN_LEN == 120
MAX_LABEL_LEN == 63

N_ip == <<"1", ".", "1", ".", "1", ".", "1">>
N_a_b == <<"a", "_", "b">>

SetMin(S) == CHOOSE x \in S : \A y \in S : x <= y

\* s.lstrip(chars): every leading character that is in chars is removed.
Lstrip(s, chars) ==
    LET keep == {i \in 1..Len(s) : s[i] \notin chars}
    IN  IF keep = {} THEN <<>> ELSE SubSeq(s, SetMin(keep), Len(s))

Digits == {"0", "1", "2", "3", "4", "5", "6", "7", "8", "9"}
Letters == {"a", "b", "c", "o", "p", "s", "A", "B", "C", "O", "P", "S"}

DigitVal(c) ==
    CASE c = "0" -> 0 [] c = "1" -> 1 [] c = "2" -> 2 [] c = "3" -> 3
      [] c = "4" -> 4 [] c = "5" -> 5 [] c = "6" -> 6 [] c = "7" -> 7
      [] c = "8" -> 8 [] c = "9" -> 9

RECURSIVE DecimalValue(_)
DecimalValue(s) ==
    IF s = <<>> THEN 0
    ELSE 10 * DecimalValue(SubSeq(s, 1, Len(s) - 1)) + DigitVal(s[Len(s)])

\* ipaddress.ip_address(domain) does not raise.  No name of the model
\* holds a colon, so only the IPv4 form can parse: four decimal octets of
\* at most three digits, at most 255, without a leading zero.
IsIPLiteral(domain) ==
    LET octets == Split(domain)
    IN  /\ Len(octets) = 4
        /\ \A i \in 1..4 :
              /\ octets[i] # <<>>
              /\ Len(octets[i]) <= 3
              /\ \A j \in 1..Len(octets[i]) : octets[i][j] \in Digits
              /\ (Len(octets[i]) > 1 => octets[i][1] # "0")
              /\ DecimalValue(octets[i]) <= 255

\* The characters of the class [a-zA-Z0-9-].
LabelChars == Letters \cup Digits \cup {"-"}

\* ALLOWED_LABEL_RE.match(label): ^[a-zA-Z0-9-]+$.  One or more characters
\* of the class, up to the end of the string; Python's `$` also matches
\* just before a newline that ends the string.
ALLOWED_LABEL_RE(label) ==
    LET n == IF label # <<>> /\ label[Len(label)] = "\n"
             THEN Len(label) - 1 ELSE Len(label)
    IN  /\ n >= 1
        /\ \A i \in 1..n : label[i] \in LabelChars

\* The two tests of process_domain a name must pass to be sent to
\* get_permutations.
ValidForTwister(domain) ==
    LET labels == Split(domain)
    IN  /\ ~(\/ Len(labels) > MAX_LABELS
             \/ Len(domain) > MAX_DOMAIN_LEN
             \/ \E i \in 1..Len(labels) : Len(labels[i]) > MAX_LABEL_LEN)
        /\ \A i \in 1..Len(labels) : ALLOWED_LABEL_RE(labels[i])

\* The membership test answers yes to every key.
key_in_seen_always(seen, key) == TRUE

\* key in seen_alerts
key_in_seen(seen, key) == \E i \in 1..Len(seen) : seen[i] = key

\* The admitted key is not recorded.
seen_append_forget(seen, key) == seen

\* seen_alerts.append(key) on a deque(maxlen=1): only the newest key stays.
seen_append_single(seen, key) == <<key>>

\* seen_alerts.append(key) on a deque without maxlen: nothing is discarded.
seen_append_unbounded(seen, key) == Append(seen, key)

\* seen_alerts.append(key) on a deque(maxlen=SEEN_MAXLEN): when full, the
\* oldest key is discarded.
seen_append(seen, key) ==
    IF Len(seen) >= SEEN_MAXLEN THEN Append(Tail(seen), key)
    ELSE Append(seen, key)

\* list(to_check)[:30] applied to one iteration order of the set.
truncate(order) == Take(order, TO_CHECK_LIMIT)

\* The iteration orders of a set: Python does not fix the order of a set
\* of strings, so every order of the first n elements can come out.
Orders(S, n) ==
    {o \in [1..n -> S] : \A i, j \in 1..n : i # j => o[i] # o[j]}

\* The lists `to_check` can be after line 140: the set {domain} plus the
\* permutations, listed in some order, cut to the limit.  Only the first
\* TO_CHECK_LIMIT + 1 places of an order can matter.
ToCheckLists(domain, permutations) ==
    LET S == {domain} \cup Range(permutations)
        n == Min(Cardinality(S), TO_CHECK_LIMIT + 1)
    IN  {truncate(o) : o \in Orders(S, n)}

\* The break test of the candidate loop: one candidate too late.
processed_full_late(processed) == Cardinality(processed) > PROCESSED_LIMIT

\* len(processed) >= 20
processed_full(processed) == Cardinality(processed) >= PROCESSED_LIMIT

\* f"{score_match:.2f}": the similarity (in ten-thousandths) rounded to
\* hundredths.  A ratio 2*LCS/(|a|+|b|) of names this short is never
\* halfway between two hundredths, so the rounding mode does not show.
Format2(x) == (x + 50) \div 100

\* A process_worker task blocked in domain_queue.get().
\*   pc          "get": blocked in domain_queue.get()
\*               "perm": awaiting get_permutations (the call is perm_call[w])
\*               "whois": awaiting asyncio.to_thread(_sync_whois, ...)
\*   item        the work item (domain, issuer, timestamp, cert_data)
\*   domain      the item's domain after lstrip
\*   to_check, processed, brand, score_match: the locals of process_domain
\*   idx         the position in to_check of fuzzed_domain
\*   memo_hit    whether _sync_whois had the answer memoized when called
\*   found       the size of the set to_check before the cut of line 140
\*   lookups     the calls of domain_registration_age made for the item
\*   alerts      the alert records enqueued for the item
\*   perm        how the item's get_permutations call ended: "none" while
\*               there was no call, else "returned" or "raised"
\*   raised      whether the except clause of line 186 caught an exception
\*   after_raise history: whether the item the worker finished last was
\*               ended by an exception
\* A task whose loop an exception has left is at pc "dead".
FreshWorker ==
    [pc |-> "get", item |-> None, domain |-> <<>>, to_check |-> <<>>,
     idx |-> 0, processed |-> {}, brand |-> <<>>, score_match |-> 0,
     memo_hit |-> FALSE, found |-> 0, lookups |-> 0, alerts |-> 0,
     perm |-> "none", raised |-> FALSE, after_raise |-> FALSE]

\* The counts of an item: the length of to_check, the size of processed,
\* the WHOIS lookups and the alerts.
ItemCounts(L) ==
    [to_check |-> Len(L.to_check), processed |-> Cardinality(L.processed),
     lookups |-> L.lookups, alerts |-> L.alerts]

\* What is kept of a finished item: its domain, how get_permutations
\* ended, whether to_check held the domain and nothing else, the
\* candidates screened, the lookups (one per candidate that is_similar
\* found suspicious), the alerts, and whether an exception ended it.
ItemSummary(L) ==
    [domain |-> L.domain, perm |-> L.perm,
     only_self |-> L.to_check = <<L.domain>>,
     processed |-> Cardinality(L.processed), lookups |-> L.lookups,
     alerts |-> L.alerts, raised |-> L.raised]

NoCounts == [to_check |-> 0, processed |-> 0, lookups |-> 0, alerts |-> 0]

MaxCounts(a, b) ==
    [to_check |-> Max(a.to_check, b.to_check),
     processed |-> Max(a.processed, b.processed),
     lookups |-> Max(a.lookups, b.lookups),
     alerts |-> Max(a.alerts, b.alerts)]

\* The module-level objects a worker's run reads and writes.  `last` is
\* the summary of the item the run finished last, None while it has
\* finished none.
Mem ==
    [domain_queue |-> domain_queue, unfinished_tasks |-> unfinished_tasks,
     log_queue |-> log_queue,
     seen_alerts |-> seen_alerts, whois_cache |-> whois_cache,
     sync_whois_memo |-> sync_whois_memo, cache |-> permutations_cache,
     emitted |-> emitted, suppressed |-> suppressed, item_max |-> item_max,
     done |-> done, last |-> None]

\* A run ends suspended: the objects, the worker's locals, and its
\* get_permutations call if it awaits one.
Suspended(m, L, call) == [mem |-> m, worker |-> L, call |-> call]

\* The header row written at import time (lines 41-45).
HEADER ==
    <<"timestamp", "domain", "brand_match", "similarity_score", "issuer",
      "tld", "tld_suspicious", "has_keyword", "entropy", "registration_days",
      "cn_mismatch", "ocsp_missing", "short_lived", "brand_in_subdomain",
      "score">>

\* The list put on log_queue (lines 180-184), in the order of the code.
AlertRow(L, fuzzed_domain, reg_days, f) ==
    <<L.item.timestamp, fuzzed_domain, L.brand, Format2(L.score_match),
      L.item.issuer,
      f.tld, f.tld_suspicious, f.has_keyword, f.entropy, reg_days,
      f.cn_mismatch, f.ocsp_missing, f.short_lived, f.brand_in_subdomain,
      f.score>>

\* suspected_phishing.csv is [exists, lines, started, kept]: whether the
\* file is there; its rows; whether lines 33-45 have run; and how many
\* rows the file had before they ran.  A row is the list of the fields
\* given to writerow (csv.writer quotes a field that holds a delimiter, so
\* a row reads back as the fields written), marked as a list of column
\* names or a list of values: TLC compares values of one type only.
NamesRow(cells) == [kind |-> "names", cells |-> cells]
ValuesRow(cells) == [kind |-> "values", cells |-> cells]

NoFile == [exists |-> FALSE, lines |-> <<>>, started |-> FALSE, kept |-> 0]

\* Lines 37-45 rewrite every file, not only a missing or empty one.
import_file_always(file) ==
    [file EXCEPT !.exists = TRUE, !.lines = <<NamesRow(HEADER)>>,
                 !.started = TRUE]

\* Lines 37-45: a file that is missing or has size 0 is opened with "w"
\* and given the header row; any other file is left as it is.
import_file(file) ==
    IF ~file.exists \/ file.lines = <<>>
    THEN [file EXCEPT !.exists = TRUE, !.lines = <<NamesRow(HEADER)>>,
                 !.started = TRUE]
    ELSE [file EXCEPT !.started = TRUE]

\* write_csv_row, lines 71-73: open(OUTPUT_FILE, "a") makes the file if it
\* is not there, and writerow appends one row.
append_row(file, entry) ==
    [file EXCEPT !.exists = TRUE, !.lines = Append(@, ValuesRow(entry))]

RECURSIVE StartItem(_, _), CandidateLoop(_, _), AfterWhois(_, _, _), EndItem(_, _)

\* `except Exception` catches nothing.
IsException_none(exc) == FALSE

\* isinstance(exc, Exception): true of the errors of ordinary code, not of
\* the BaseExceptions that end a task from outside.
IsException(exc) == exc \in {"TypeError", "AttributeError", "KeyError"}

\* An exception raised inside the try block of process_domain: the except
\* clause of lines 186-188 catches it and process_domain returns; what it
\* does not catch goes to process_worker, whose except clause of lines
\* 55-57 catches it and the loop goes on; what neither catches ends the
\* task.
Raise(m, L, exc) ==
    IF IsException(exc) THEN EndItem(m, [L EXCEPT !.raised = TRUE])
    ELSE {Suspended(m, [L EXCEPT !.pc = "dead"], None)}

\* Lines 172-184 for the candidate at idx, whose age is reg_days, then the
\* next iteration.  What extract_features raises ends the item in the
\* except clause of lines 186-188.
AfterWhois(m, L, reg_days) ==
    LET fuzzed_domain == L.to_check[L.idx]
        f == extract_features(fuzzed_domain, L.item.issuer, reg_days,
                              L.score_match, L.item.cert)
        key == <<fuzzed_domain, L.brand>>
        next == [L EXCEPT !.idx = @ + 1]
    IN  IF extract_raises(L.item.cert) THEN Raise(m, L, "TypeError")
        ELSE IF ~key_in_seen(m.seen_alerts, key)
        THEN CandidateLoop(
                 [m EXCEPT !.seen_alerts = seen_append(@, key),
                           !.log_queue =
                               Append(@, AlertRow(L, fuzzed_domain, reg_days, f)),
                           !.emitted = Append(@, key)],
                 [next EXCEPT !.alerts = @ + 1])
        ELSE CandidateLoop([m EXCEPT !.suppressed = @ \cup {key}], next)

\* The for loop of lines 144-184 from position idx on, up to the next
\* WHOIS lookup that has to wait or to the end of the item.
CandidateLoop(m, L) ==
    IF L.idx > Len(L.to_check) \/ processed_full(L.processed)
    THEN EndItem(m, L)
    ELSE LET fuzzed_domain == L.to_check[L.idx]
             r == is_similar(fuzzed_domain)
             seen == [L EXCEPT !.processed = @ \cup {fuzzed_domain}]
         IN  IF fuzzed_domain \in L.processed
             THEN CandidateLoop(m, [L EXCEPT !.idx = @ + 1])
             ELSE IF ~r[1]
             THEN CandidateLoop(m, [seen EXCEPT !.idx = @ + 1])
             ELSE LET hit == [seen EXCEPT !.brand = r[2],
                                          !.score_match = r[3],
                                          !.lookups = @ + 1]
                  IN  IF fuzzed_domain \in DOMAIN m.whois_cache
                      THEN AfterWhois(m, hit, m.whois_cache[fuzzed_domain])
                      ELSE {Suspended(m,
                               [hit EXCEPT
                                   !.pc = "whois",
                                   !.memo_hit =
                                       fuzzed_domain \in DOMAIN m.sync_whois_memo],
                               None)}

\* A failed get_permutations counts as an empty list: the domain itself is
\* still screened.
AfterPermutations_fallback(m, L, outcome) ==
    LET value == IF outcome.kind = "raise" THEN <<>> ELSE outcome.value
    IN  UNION {CandidateLoop(m, [L EXCEPT
                                    !.perm = IF outcome.kind = "raise"
                                             THEN "raised" ELSE "returned",
                                    !.to_check = tc, !.idx = 1,
                                    !.found = Cardinality(
                                        {L.domain} \cup Range(value))]) :
                   tc \in ToCheckLists(L.domain, value)}

\* process_domain after get_permutations has returned or raised.
AfterPermutations(m, L, outcome) ==
    IF outcome.kind = "raise" THEN EndItem(m, [L EXCEPT !.perm = "raised"])
    ELSE UNION {CandidateLoop(m, [L EXCEPT
                                     !.perm = "returned",
                                     !.to_check = tc, !.idx = 1,
                                     !.found = Cardinality(
                                         {L.domain} \cup Range(outcome.value))]) :
                    tc \in ToCheckLists(L.domain, outcome.value)}

\* process_domain(*item) from its first line on.
StartItem(m, item) ==
    LET domain == Lstrip(item.domain, {"*", "."})
        L == [FreshWorker EXCEPT !.pc = "run", !.item = item,
                                 !.domain = domain]
        r == perm_begin(m.cache, domain)
    IN  IF IsIPLiteral(domain)
        THEN CandidateLoop(m, [L EXCEPT !.to_check = <<domain>>, !.idx = 1,
                                        !.found = 1])
        ELSE IF ~ValidForTwister(domain) THEN EndItem(m, L)
        ELSE IF r.outcome = None
        THEN {Suspended(m, [L EXCEPT !.pc = "perm"], r.call)}
        ELSE AfterPermutations(m, L, r.outcome[1])

\* process_domain has returned: task_done(), then domain_queue.get(), which
\* hands over the next item at once when there is one.
\* A task_done() that does not count.
task_done_skipped(unfinished) == unfinished

\* Queue.task_done(): one item less is unfinished (a call with none
\* unfinished raises ValueError and leaves the count).
task_done(unfinished) == IF unfinished > 0 THEN unfinished - 1 ELSE unfinished

\* The `finally` clause of line 58 in n cancelled process_worker tasks,
\* one after the other: task_done() each, whether the task held an item
\* or was blocked in get().
RECURSIVE cancelled_task_done(_, _)
cancelled_task_done(unfinished, n) ==
    IF n = 0 THEN unfinished
    ELSE cancelled_task_done(task_done(unfinished), n - 1)

\* Queue.put_nowait, n times: n items more are unfinished.
put_count(unfinished, n) == unfinished + n

EndItem(m, L) ==
    LET m1 == [m EXCEPT !.unfinished_tasks = task_done(@),
                        !.item_max = MaxCounts(@, ItemCounts(L)),
                        !.done = @ \cup {ItemSummary(L)},
                        !.last = Some(ItemSummary(L))]
    IN  IF m1.domain_queue = <<>>
        THEN {Suspended(m1, FreshWorker, None)}
        ELSE StartItem([m1 EXCEPT !.domain_queue = Tail(@)],
                       Head(m1.domain_queue))

(***************************************************************************)
(* Spec: the pipeline.  MaxMessages WebSocket messages arrive; NumWorkers  *)
(* process_worker tasks and the csv_writer_worker task handle them.  The   *)
(* session state of certstream_client is not part of this specification.   *)
(***************************************************************************)

\* The brand list the pipeline runs with.
PipelineBrands == <<N_abb, <<"b", "a", "b">> >>

(***************************************************************************)
(* WHOIS output: src/utils/who_is.py, _sync_whois                          *)
(***************************************************************************)

SetMax(S) == CHOOSE x \in S : \A y \in S : x >= y

\* s.split(sep) for a one-character separator
RECURSIVE SplitBy(_, _)
SplitBy(s, sep) ==
    LET hits == {i \in 1..Len(s) : s[i] = sep}
    IN  IF hits = {} THEN <<s>>
        ELSE <<SubSeq(s, 1, SetMin(hits) - 1)>>
                 \o SplitBy(SubSeq(s, SetMin(hits) + 1, Len(s)), sep)

\* output.splitlines(), for outputs whose line ends are "\n": a final line
\* end does not open an empty last line.
splitlines(output) ==
    LET parts == SplitBy(output, "\n")
    IN  IF parts[Len(parts)] = <<>> THEN SubSeq(parts, 1, Len(parts) - 1)
        ELSE parts

Whitespace == {" ", "\t", "\r", "\n"}

\* s.strip()
strip(s) ==
    LET keep == {i \in 1..Len(s) : s[i] \notin Whitespace}
    IN  IF keep = {} THEN <<>> ELSE SubSeq(s, SetMin(keep), SetMax(keep))

\* The directives and literals of "%Y-%m-%dT%H:%M:%SZ" (line 56).
DATE_FORMAT ==
    <<"%Y", "-", "%m", "-", "%d", "T", "%H", ":", "%M", ":", "%S", "Z">>

\* The values strptime's pattern of a directive takes in two digits and in
\* one digit (_strptime.TimeRE): %m is 1[0-2]|0[1-9]|[1-9], and so on.
TwoDigit(d) ==
    CASE d = "%m" -> 1..12 [] d = "%d" -> 1..31 [] d = "%H" -> 0..23
      [] d = "%M" -> 0..59 [] d = "%S" -> 0..61
OneDigit(d) == IF d \in {"%m", "%d"} THEN 1..9 ELSE 0..9

\* The digits of s from index i on, at most n of them.
DigitsAt(s, i, n) ==
    LET last == Min(Len(s), i + n - 1)
        stop == {j \in i..last : s[j] \notin Digits}
    IN  SubSeq(s, i, IF stop = {} THEN last ELSE SetMin(stop) - 1)

\* How many characters of s directive d takes at index i, 0 when its
\* pattern does not match there.
FieldWidth(s, i, d) ==
    IF d = "%Y" THEN (IF Len(DigitsAt(s, i, 4)) = 4 THEN 4 ELSE 0)
    ELSE LET r == DigitsAt(s, i, 2)
         IN  IF Len(r) = 2 /\ DecimalValue(r) \in TwoDigit(d) THEN 2
             ELSE IF Len(r) >= 1 /\ DigitVal(r[1]) \in OneDigit(d) THEN 1
             ELSE 0

\* strptime's pattern is compiled with re.IGNORECASE.
SameLetter(c, lit) ==
    c = lit \/ (lit = "T" /\ c = "t") \/ (lit = "Z" /\ c = "z")

\* The match of s from index i against DATE_FORMAT from item k on: the
\* numbers of the directives in order, or None.
RECURSIVE strptime_match(_, _, _, _)
strptime_match(s, i, k, acc) ==
    IF k > Len(DATE_FORMAT)
    THEN (IF i = Len(s) + 1 THEN Some(acc) ELSE None)
    ELSE LET d == DATE_FORMAT[k]
             w == FieldWidth(s, i, d)
         IN  IF d \in {"%Y", "%m", "%d", "%H", "%M", "%S"}
             THEN IF w = 0 THEN None
                  ELSE strptime_match(s, i + w, k + 1,
                           Append(acc, DecimalValue(SubSeq(s, i, i + w - 1))))
             ELSE IF i <= Len(s) /\ SameLetter(s[i], d)
                  THEN strptime_match(s, i + 1, k + 1, acc)
                  ELSE None

IsLeap(y) == y % 4 = 0 /\ (y % 100 # 0 \/ y % 400 = 0)
DaysInMonth(y, m) ==
    IF m = 2 THEN (IF IsLeap(y) THEN 29 ELSE 28)
    ELSE IF m \in {4, 6, 9, 11} THEN 30 ELSE 31

\* datetime.strptime(s, "%Y-%m-%dT%H:%M:%SZ"): the datetime, or None where
\* it raises ValueError (no match, or a date or second datetime() refuses).
strptime(s) ==
    LET m == strptime_match(s, 1, 1, <<>>)
    IN  IF m = None THEN None
        ELSE LET t == m[1]
             IN  IF t[1] >= 1 /\ t[3] <= DaysInMonth(t[1], t[2]) /\ t[6] <= 59
                 THEN Some([year |-> t[1], month |-> t[2], day |-> t[3],
                            hour |-> t[4], minute |-> t[5], second |-> t[6]])
                 ELSE None

\* date.toordinal(), counted from 1970-01-01.
DaysFromCivil(y, m, d) ==
    LET yy == IF m <= 2 THEN y - 1 ELSE y
        era == yy \div 400
        yoe == yy - era * 400
        mp == (m + 9) % 12
        doy == (153 * mp + 2) \div 5 + d - 1
        doe == yoe * 365 + yoe \div 4 - yoe \div 100 + doy
    IN  era * 146097 + doe - 719468

SecondsOf(t) ==
    DaysFromCivil(t.year, t.month, t.day) * 86400
        + t.hour * 3600 + t.minute * 60 + t.second

\* (now - then).days: timedelta normalises with a floor.
timedelta_days(now, then) == (SecondsOf(now) - SecondsOf(then)) \div 86400

K_CreationDate ==
    <<"C", "r", "e", "a", "t", "i", "o", "n", " ", "D", "a", "t", "e", ":">>
K_created == <<"c", "r", "e", "a", "t", "e", "d", ":">>

\* Lines 52-60: the loop over the lines from line k on.
RECURSIVE sync_whois_scan(_, _, _)
sync_whois_scan(lines, k, now) ==
    IF k > Len(lines) THEN -1
    ELSE IF IsSubstring(K_CreationDate, lines[k])
             \/ IsSubstring(K_created, Lower(lines[k]))
    THEN LET date_str == strip(SplitBy(lines[k], ":")[2])
             creation_date == strptime(date_str)
         IN  IF creation_date = None THEN sync_whois_scan(lines, k + 1, now)
             ELSE timedelta_days(now, creation_date[1])
    ELSE sync_whois_scan(lines, k + 1, now)

\* _sync_whois(domain) where the run of the binary is `run`.
sync_whois(run, now) ==
    IF run.failed THEN -1 ELSE sync_whois_scan(splitlines(run.output), 1, now)

\* ---- inputs
T_2024_02_28 ==
    <<"2", "0", "2", "4", "-", "0", "2", "-", "2", "8", "T",
      "2", "3", ":", "5", "9", ":", "5", "9", "Z">>
T_2020_01_01 ==
    <<"2", "0", "2", "0", "-", "0", "1", "-", "0", "1", "T",
      "0", "0", ":", "0", "0", ":", "0", "0", "Z">>
T_DateOnly == <<"2", "0", "2", "4", "-", "0", "1", "-", "1", "5">>
T_BadMonth ==
    <<"2", "0", "2", "4", "-", "1", "3", "-", "0", "1", "T",
      "0", "0", ":", "0", "0", ":", "0", "0", "Z">>

\* Lines of a whois output: two creation lines with a timestamp (the second
\* indented, as registries print it), one under "Created:", two creation
\* lines whose date is not a timestamp, and a line about something else.
LinePool ==
    { K_CreationDate \o <<" ">> \o T_2024_02_28,
      <<" ", " ">> \o K_CreationDate \o <<" ">> \o T_2020_01_01,
      <<"C">> \o Tail(K_created) \o <<" ">> \o T_2020_01_01,
      K_created \o <<" ">> \o T_DateOnly,
      K_CreationDate \o <<" ">> \o T_BadMonth,
      <<"a", "b", ":", " ", "b", "a">> }

MaxLines == 2

RECURSIVE JoinLines(_)
JoinLines(lines) ==
    IF lines = <<>> THEN <<>>
    ELSE lines[1] \o <<"\n">> \o JoinLines(Tail(lines))

WhoisOutputs ==
    {JoinLines(ls) : ls \in UNION {[1..n -> LinePool] : n \in 0..MaxLines}}

\* A run of the binary: check_output raised, or it returned the output.
WhoisRuns ==
    {[failed |-> TRUE, output |-> <<>>]}
        \cup {[failed |-> FALSE, output |-> o] : o \in WhoisOutputs}

NowPool ==
    { [year |-> 2024, month |-> 3, day |-> 1,
       hour |-> 0, minute |-> 0, second |-> 0],
      [year |-> 2024, month |-> 2, day |-> 29,
       hour |-> 23, minute |-> 59, second |-> 58] }

\* The ages _sync_whois can return: what it makes of the runs above.
WhoisAges == {sync_whois(run, now) : run \in WhoisRuns, now \in NowPool}

ShortLivedCert ==
    [EmptyCert EXCEPT !.subject_cn = N_ab, !.san = Some(<<N_ba>>),
                      !.crl = TRUE,
                      !.not_before = [kind |-> "iso", days |-> -1],
                      !.not_after = [kind |-> "iso", days |-> 20]]

\* The WebSocket messages.  kind "text" is a message that is not JSON.
\*   leaf_cert |-> None: data has no "leaf_cert".
MessagePool ==
    {[kind |-> "json", message_type |-> "certificate_update",
      all_domains |-> <<N_wild_ab>>, seen |-> 1,
      issuer_O |-> Some("Let's Encrypt"), leaf_cert |-> ShortLivedCert],
     [kind |-> "json", message_type |-> "certificate_update",
      all_domains |-> <<N_a_b, N_ip>>, seen |-> 2,
      issuer_O |-> None, leaf_cert |-> EmptyCert],
     [kind |-> "json", message_type |-> "heartbeat",
      all_domains |-> <<>>, seen |-> 3,
      issuer_O |-> None, leaf_cert |-> EmptyCert],
     [kind |-> "text", message_type |-> "", all_domains |-> <<>>,
      seen |-> 0, issuer_O |-> None, leaf_cert |-> EmptyCert]}

\* write_csv_row(entry) with nothing to catch what open or writerow
\* raises.
write_csv_row_raises(file, entry, ok) ==
    [file |-> IF ok THEN append_row(file, entry) ELSE file,
     raised |-> ~ok, logged |-> FALSE]

\* write_csv_row(entry), lines 69-75: the row is appended, or open or
\* writerow raises, the except clause prints the error and the function
\* returns; the file is then as it was.
write_csv_row(file, entry, ok) ==
    [file |-> IF ok THEN append_row(file, entry) ELSE file,
     raised |-> FALSE, logged |-> ~ok]

\* csv_writer_worker blocked in log_queue.get().
\*   pc     "get": blocked in log_queue.get()
\*          "write": awaiting asyncio.to_thread(write_csv_row, entry)
\*          "dead": an exception has ended the task
\*   entry  the record being written
\*   lost   history: the records whose write failed, each with the number
\*          of rows the file had then
FreshWriter == [pc |-> "get", entry |-> None, lost |-> <<>>]

\* A row an earlier run of the program left in the file: its alert on the
\* name ab.
OldRow ==
    LET r == is_similar(N_ab)
        item == [domain |-> N_ab, issuer |-> "Unknown", timestamp |-> 0,
                 cert |-> EmptyCert]
        L == [FreshWorker EXCEPT !.item = item, !.brand = r[2],
                                 !.score_match = r[3]]
    IN  AlertRow(L, N_ab, -1,
                 extract_features(N_ab, item.issuer, -1, r[3], item.cert))

\* The file the program finds when it starts: none, an empty one, or the
\* file of an earlier run.
StartFiles ==
    { NoFile,
      [NoFile EXCEPT !.exists = TRUE],
      [NoFile EXCEPT !.exists = TRUE, !.lines = <<NamesRow(HEADER), ValuesRow(OldRow)>>,
                     !.kept = 2] }

\* The state when listener.py is imported, before its lines 33-45 run.
Init ==
    /\ BRAND_DOMAINS = PipelineBrands
    /\ domain_queue = <<>>
    /\ unfinished_tasks = 0
    /\ log_queue = <<>>
    /\ seen_alerts = <<>>
    /\ whois_cache = EmptyDict
    /\ sync_whois_memo = EmptyDict
    /\ permutations_cache = EmptyDict
    /\ perm_call = [w \in Workers |-> None]
    /\ workers = [w \in Workers |-> FreshWorker]
    /\ writer = FreshWriter
    /\ csv_file \in StartFiles
    /\ received = 0
    /\ emitted = <<>>
    /\ suppressed = {}
    /\ item_max = NoCounts
    /\ done = {}
    /\ faults = 0
    /\ ScoreIdle /\ SimIdle /\ PmIdle /\ ClientIdle /\ WhoisIdle

\* Worker w's run ended in `out`.
Install(w, out) ==
    /\ domain_queue' = out.mem.domain_queue
    /\ unfinished_tasks' = out.mem.unfinished_tasks
    /\ log_queue' = out.mem.log_queue
    /\ seen_alerts' = out.mem.seen_alerts
    /\ whois_cache' = out.mem.whois_cache
    /\ sync_whois_memo' = out.mem.sync_whois_memo
    /\ permutations_cache' = out.mem.cache
    /\ emitted' = out.mem.emitted
    /\ suppressed' = out.mem.suppressed
    /\ item_max' = out.mem.item_max
    /\ done' = out.mem.done
    /\ workers' =
           [workers EXCEPT
               ![w] = [out.worker EXCEPT
                          !.after_raise =
                              IF out.mem.last = None THEN workers[w].after_raise
                              ELSE out.mem.last[1].raised]]
    /\ perm_call' = [perm_call EXCEPT ![w] = out.call]
    /\ UNCHANGED <<BRAND_DOMAINS, clientVars, whoisVars, scoreVars, simVars, pmVars, writer,
                   csv_file, received>>

\* One more failure of the environment, while the run's bound allows it.
Fault ==
    /\ faults < MaxFaults
    /\ faults' = faults + 1

\* process_message(message) applied to the queue q: json.loads raises on a
\* message that is not JSON; a message of another type is dropped; else
\* every name of all_domains is put on the queue, its leading "*" and "."
\* removed.  The answer tells whether the call raised and gives the queue
\* it leaves.
process_message(msg, q) ==
    IF msg.kind # "json" THEN [raised |-> TRUE, queue |-> q]
    ELSE IF msg.message_type # "certificate_update"
    THEN [raised |-> FALSE, queue |-> q]
    ELSE [raised |-> FALSE,
          queue |-> q \o
              [i \in 1..Len(msg.all_domains) |->
                  [domain |-> Lstrip(msg.all_domains[i], {"*", "."}),
                   issuer |-> IF msg.issuer_O = None THEN "Unknown"
                              ELSE msg.issuer_O[1],
                   timestamp |-> msg.seen,
                   cert |-> msg.leaf_cert]]]

\* Lines 33-45 run, once, when the module is imported: before main() and
\* so before any task.
Startup ==
    /\ ~csv_file.started
    /\ csv_file' = import_file(csv_file)
    /\ UNCHANGED <<BRAND_DOMAINS, clientVars, whoisVars, scoreVars, simVars,
                   permVars, pmVars, domain_queue, unfinished_tasks, log_queue,
                   seen_alerts,
                   whois_cache, sync_whois_memo, workers, writer, received,
                   emitted, suppressed, item_max, done, faults>>

\* One more message of the stream is handled by process_message.
Receive(msg) ==
    /\ csv_file.started
    /\ received < MaxMessages
    /\ received' = received + 1
    /\ domain_queue' = process_message(msg, domain_queue).queue
    /\ unfinished_tasks' =
           put_count(unfinished_tasks,
                     Len(process_message(msg, domain_queue).queue)
                         - Len(domain_queue))
    /\ UNCHANGED <<BRAND_DOMAINS, clientVars, whoisVars, scoreVars, simVars, permVars,
                   pmVars, log_queue, seen_alerts, whois_cache,
                   sync_whois_memo, workers, writer, csv_file, emitted,
                   suppressed, item_max, done, faults>>

\* A worker blocked in domain_queue.get() is handed the oldest item.
WorkerGet(w) ==
    /\ workers[w].pc = "get"
    /\ domain_queue # <<>>
    /\ \E out \in StartItem([Mem EXCEPT !.domain_queue = Tail(@)],
                            Head(domain_queue)) : Install(w, out)
    /\ UNCHANGED faults

\* Worker w's get_permutations call ends, in one of the ways it can.
WorkerPermDone(w) ==
    /\ workers[w].pc = "perm"
    /\ \E r \in perm_finish(perm_call[w][1], permutations_cache) :
           \E out \in AfterPermutations([Mem EXCEPT !.cache = r.cache],
                                        workers[w], r.outcome[1]) :
               Install(w, out)
    /\ UNCHANGED faults

\* domain_registration_age from line 73 on: the thread that ran
\* _sync_whois returns `age`.  A call that found the answer memoized gets
\* that answer; a fresh answer is memoized unless one is there already.
WorkerWhoisDone(w, age) ==
    /\ workers[w].pc = "whois"
    /\ LET L == workers[w]
           d == L.to_check[L.idx]
           m == [Mem EXCEPT
                    !.sync_whois_memo =
                        IF d \in DOMAIN @ THEN @ ELSE DictSet(@, d, age),
                    !.whois_cache = DictSet(@, d, age)]
       IN  /\ L.memo_hit => age = sync_whois_memo[d]
           /\ \E out \in AfterWhois(m, [L EXCEPT !.pc = "run"], age) :
                  Install(w, out)
    /\ UNCHANGED faults

\* An entry of whois_cache is older than its TTL and is dropped.
WhoisExpire(d) ==
    /\ d \in DOMAIN whois_cache
    /\ Fault
    /\ whois_cache' = DictDel(whois_cache, d)
    /\ UNCHANGED <<BRAND_DOMAINS, clientVars, whoisVars, scoreVars, simVars, permVars, pmVars,
                   domain_queue, unfinished_tasks, log_queue, seen_alerts,
                   sync_whois_memo,
                   workers, writer, csv_file, received, emitted, suppressed,
                   item_max, done>>

\* csv_writer_worker blocked in log_queue.get() is handed the oldest
\* record and starts the thread that writes it.
WriterGet ==
    /\ writer.pc = "get"
    /\ log_queue # <<>>
    /\ writer' = [writer EXCEPT !.pc = "write",
                                 !.entry = Some(Head(log_queue))]
    /\ log_queue' = Tail(log_queue)
    /\ UNCHANGED <<BRAND_DOMAINS, clientVars, whoisVars, scoreVars, simVars, permVars, pmVars,
                   domain_queue, unfinished_tasks, seen_alerts, whois_cache,
                   sync_whois_memo,
                   workers, csv_file, received, emitted, suppressed,
                   item_max, done, faults>>

\* The thread of line 65 is over: write_csv_row(entry) has appended the row
\* (ok) or its write raised.  Then task_done() and the next get(), which
\* hands over the oldest record at once when there is one.  No clause of
\* csv_writer_worker catches what write_csv_row raises: that would end the
\* task.
WriterDone(ok) ==
    /\ writer.pc = "write"
    /\ IF ok THEN UNCHANGED faults ELSE Fault
    /\ LET r == write_csv_row(csv_file, writer.entry[1], ok)
           w == IF r.logged
                THEN [writer EXCEPT
                         !.lost = Append(@, [row |-> writer.entry[1],
                                             at |-> Len(csv_file.lines)])]
                ELSE writer
       IN  /\ csv_file' = r.file
           /\ IF r.raised
              THEN /\ writer' = [w EXCEPT !.pc = "dead"]
                   /\ UNCHANGED log_queue
              ELSE IF log_queue = <<>>
              THEN /\ writer' = [w EXCEPT !.pc = "get", !.entry = None]
                   /\ UNCHANGED log_queue
              ELSE /\ writer' = [w EXCEPT !.pc = "write",
                                          !.entry = Some(Head(log_queue))]
                   /\ log_queue' = Tail(log_queue)
    /\ UNCHANGED <<BRAND_DOMAINS, clientVars, whoisVars, scoreVars, simVars, permVars, pmVars,
                   domain_queue, unfinished_tasks, seen_alerts, whois_cache,
                   sync_whois_memo,
                   workers, received, emitted, suppressed, item_max, done>>

Next ==
    \/ Startup
    \/ \E msg \in MessagePool : Receive(msg)
    \/ \E w \in Workers : WorkerGet(w)
    \/ \E w \in Workers : WorkerPermDone(w)
    \/ \E w \in Workers, age \in WhoisAges : WorkerWhoisDone(w, age)
    \/ \E d \in DOMAIN whois_cache : WhoisExpire(d)
    \/ WriterGet
    \/ \E ok \in BOOLEAN : WriterDone(ok)

Spec == Init /\ [][Next]_vars

(***************************************************************************)
(* Claims about the pipeline, checked under Spec.                          *)
(***************************************************************************)

\* The number of places of the sequence s that hold x.
Occurrences(s, x) == Cardinality({i \in 1..Len(s) : s[i] = x})

\* The field of a row under the column `name` of the header.
Column(row, name) == row[CHOOSE i \in 1..Len(HEADER) : HEADER[i] = name]

\* The key of an alert record.
KeyOf(row) == <<Column(row, "domain"), Column(row, "brand_match")>>

\* The rows appended to the file since the program started.
RowsWritten ==
    LET first == Max(csv_file.kept, 1)
    IN  [i \in 1..(Len(csv_file.lines) - first) |->
            csv_file.lines[first + i].cells]

\* The alert records that are enqueued, being written or in the file.
RecordsAbout ==
    log_queue \o (IF writer.entry = None THEN <<>> ELSE writer.entry)
              \o RowsWritten

\* Worker w is inside process_domain.
InFlight(w) == workers[w].pc \in {"perm", "whois"}

\* C1: under every interleaving of the workers, no (candidate, brand) pair
\* is enqueued twice within SEEN_MAXLEN consecutive alerts, and no pair has
\* more records on the way to the file or in it than alerts enqueued; so
\* the same certificate fed twice, with both items in flight at once,
\* gives one alert for the pair.
C1_NoRepeatWithinWindow ==
    /\ \A i, j \in 1..Len(emitted) :
           (i < j /\ j - i < SEEN_MAXLEN) => emitted[i] # emitted[j]
    /\ \A i \in 1..Len(RecordsAbout) :
           Occurrences([k \in 1..Len(RecordsAbout) |-> KeyOf(RecordsAbout[k])],
                       KeyOf(RecordsAbout[i]))
               <= Occurrences(emitted, KeyOf(RecordsAbout[i]))

\* Two workers hold items of the same certificate at once and the pair one
\* of them alerted on was turned down for the other.
C1_Witness_SecondInFlightSuppressed ==
    /\ \A w \in Workers : InFlight(w)
    /\ workers[1].item = workers[2].item
    /\ \E key \in suppressed :
           /\ Occurrences(emitted, key) = 1
           /\ \A w \in Workers : key[1] \in workers[w].processed

\* The claim's definition of a known false positive: an entry of the
\* pattern list is a substring of the lowercased candidate.
IsFalsePositive(candidate) ==
    \E k \in 1..Len(FALSE_POSITIVE_PATTERNS) :
        IsSubstring(FALSE_POSITIVE_PATTERNS[k], Lower(candidate))

\* Candidate d is within the threshold of a brand that differs from it.
NearSomeBrand(d) ==
    \E i \in 1..Len(BRAND_DOMAINS) :
        /\ ratio(Lower(d), Lower(BRAND_DOMAINS[i])) >= THRESHOLD
        /\ Lower(d) # Lower(BRAND_DOMAINS[i])

\* C8: a candidate that is a known false positive never produces an alert,
\* whatever its similarity to a brand: is_similar answers (False, None,
\* None) for every such candidate a worker screens, and no alert is
\* enqueued, written or recorded in seen_alerts for it.
C8_FalsePositiveNeverAlerts ==
    /\ \A w \in Workers : \A d \in workers[w].processed :
           IsFalsePositive(d) => is_similar(d) = NoMatch
    /\ \A i \in 1..Len(emitted) : ~IsFalsePositive(emitted[i][1])
    /\ \A i \in 1..Len(seen_alerts) : ~IsFalsePositive(seen_alerts[i][1])
    /\ \A i \in 1..Len(RecordsAbout) : ~IsFalsePositive(Column(RecordsAbout[i], "domain"))

\* A worker has screened a known false positive that is within the
\* threshold of a brand, and has gone on to a later candidate.
C8_Witness_SimilarFalsePositiveScreened ==
    \E w \in Workers :
        /\ workers[w].pc = "whois"
        /\ \E d \in workers[w].processed :
               /\ IsFalsePositive(d)
               /\ NearSomeBrand(d)
               /\ d # workers[w].to_check[workers[w].idx]

\* The counts c are within the caps of a work item.
WithinCaps(c) ==
    /\ c.to_check <= TO_CHECK_LIMIT
    /\ c.processed <= PROCESSED_LIMIT
    /\ c.lookups <= PROCESSED_LIMIT
    /\ c.alerts <= PROCESSED_LIMIT

\* C10: for every work item, to_check is cut to at most TO_CHECK_LIMIT
\* entries and at most PROCESSED_LIMIT distinct candidates are screened, so
\* the item makes at most that many WHOIS lookups and alerts, whatever the
\* number of permutations returned.
C10_ItemWithinCaps ==
    /\ WithinCaps(item_max)
    /\ \A w \in Workers : WithinCaps(ItemCounts(workers[w]))

\* An item whose candidate set was larger than the cut has reached both
\* caps: to_check is full, and the last candidate allowed is awaiting its
\* WHOIS lookup.
C10_Witness_BothCapsReached ==
    \E w \in Workers :
        /\ workers[w].pc = "whois"
        /\ workers[w].found > TO_CHECK_LIMIT
        /\ Len(workers[w].to_check) = TO_CHECK_LIMIT
        /\ Cardinality(workers[w].processed) = PROCESSED_LIMIT
        /\ workers[w].lookups = PROCESSED_LIMIT

(***************************************************************************)
(* SpecClient: certstream_client on its own.  The task connects, reads     *)
(* MaxMessages messages over any number of sessions, and sleeps after each *)
(* failure; at most MaxFailures failures follow one another.               *)
(***************************************************************************)

\* backoff = 1 (lines 208 and 213)
BACKOFF_START == 1

\* the cap of min(backoff * 2, 60)
BACKOFF_CAP == 60

MaxFailures == 8

\* The backoff without its cap.
backoff_next_uncapped(backoff) == backoff * 2

\* backoff = min(backoff * 2, 60)
backoff_next(backoff) == Min(backoff * 2, BACKOFF_CAP)

\* The task before its first connect.
\*   pc       "connect": awaiting websockets.connect
\*            "recv": inside `async for message in ws`, the session open
\*            "sleep": in asyncio.sleep(backoff) of the except clause
\*   backoff  the local of that name
\*   sleeps   history: the length of every sleep since the last connect
\*            that succeeded (or since the start)
\*   event    history: what the task's last step was
\*   enqueued history: the items the last message put on domain_queue
ClientStart ==
    [pc |-> "connect", backoff |-> BACKOFF_START, sleeps |-> <<>>,
     event |-> "start", enqueued |-> 0]

\* The task without `except Exception`: what is raised ends it.
client_uncaught(c, event) ==
    [c EXCEPT !.pc = "ended", !.event = event, !.enqueued = 0]

\* The except clause up to its await: asyncio.sleep(backoff) begins.
client_except(c, event) ==
    [c EXCEPT !.pc = "sleep", !.sleeps = Append(@, c.backoff),
              !.event = event, !.enqueued = 0]

ClientInit ==
    /\ BRAND_DOMAINS = None
    /\ client = ClientStart
    /\ domain_queue = <<>>
    /\ unfinished_tasks = 0
    /\ received = 0
    /\ log_queue = None /\ seen_alerts = None /\ whois_cache = None
    /\ sync_whois_memo = None /\ workers = None /\ writer = None
    /\ csv_file = None /\ emitted = None /\ suppressed = None
    /\ item_max = None /\ done = None /\ faults = 0
    /\ ScoreIdle /\ SimIdle /\ PermIdle /\ PmIdle /\ WhoisIdle

\* What SpecClient leaves alone.
ClientFrame ==
    UNCHANGED <<BRAND_DOMAINS, whoisVars, scoreVars, simVars, permVars,
                pmVars, log_queue, seen_alerts, whois_cache, sync_whois_memo,
                workers, writer, csv_file, emitted, suppressed, item_max,
                done, faults>>

\* websockets.connect succeeds: backoff = 1, and the task waits for the
\* first message.
ClientConnected ==
    /\ client.pc = "connect"
    /\ client' = [client EXCEPT !.pc = "recv", !.backoff = BACKOFF_START,
                                !.sleeps = <<>>, !.event = "connected",
                                !.enqueued = 0]
    /\ UNCHANGED <<domain_queue, unfinished_tasks, received>>
    /\ ClientFrame

\* websockets.connect raises.
ClientConnectFailed ==
    /\ client.pc = "connect"
    /\ Len(client.sleeps) < MaxFailures
    /\ client' = client_except(client, "connect_failed")
    /\ UNCHANGED <<domain_queue, unfinished_tasks, received>>
    /\ ClientFrame

\* The session delivers a message: process_message(message).  What it
\* raises leaves the `async with` block, which closes the session, and is
\* caught by the except clause.
ClientMessage(msg) ==
    /\ client.pc = "recv"
    /\ received < MaxMessages
    /\ received' = received + 1
    /\ LET r == process_message(msg, domain_queue)
       IN  /\ domain_queue' = r.queue
           /\ unfinished_tasks' =
                  put_count(unfinished_tasks,
                            Len(r.queue) - Len(domain_queue))
           /\ client' =
                  IF r.raised THEN client_except(client, "not_json")
                  ELSE [client EXCEPT
                           !.event = "message",
                           !.enqueued = Len(r.queue) - Len(domain_queue)]
    /\ ClientFrame

\* The session breaks: the iteration over ws raises.
ClientLost ==
    /\ client.pc = "recv"
    /\ client' = client_except(client, "lost")
    /\ UNCHANGED <<domain_queue, unfinished_tasks, received>>
    /\ ClientFrame

\* The server closes the session in order: the iteration over ws ends, and
\* the while loop connects again at once.
ClientClosed ==
    /\ client.pc = "recv"
    /\ client' = [client EXCEPT !.pc = "connect", !.event = "closed",
                                !.enqueued = 0]
    /\ UNCHANGED <<domain_queue, unfinished_tasks, received>>
    /\ ClientFrame

\* asyncio.sleep(backoff) returns: the backoff is doubled up to its cap
\* and the loop connects again.
ClientWake ==
    /\ client.pc = "sleep"
    /\ client' = [client EXCEPT !.pc = "connect",
                                !.backoff = backoff_next(@),
                                !.event = "woke", !.enqueued = 0]
    /\ UNCHANGED <<domain_queue, unfinished_tasks, received>>
    /\ ClientFrame

ClientNext ==
    \/ ClientConnected
    \/ ClientConnectFailed
    \/ \E msg \in MessagePool : ClientMessage(msg)
    \/ ClientLost
    \/ ClientClosed
    \/ ClientWake

SpecClient == ClientInit /\ [][ClientNext]_vars

\* C12: the reconnect delay starts at 1 s, doubles after each consecutive
\* failure, never exceeds 60 s and is reset by every successful connect:
\* the k-th sleep since the last successful connect lasts
\* min(2^(k-1), 60) seconds, a session that has just been opened has
\* backoff 1, and 1 <= backoff <= 60 in every state.
C12_BackoffDoublesToCap ==
    /\ \A k \in 1..Len(client.sleeps) :
           client.sleeps[k] = Min(2^(k - 1), 60)
    /\ client.pc = "sleep" => client.backoff = client.sleeps[Len(client.sleeps)]
    /\ client.pc = "recv" => client.backoff = 1
    /\ 1 <= client.backoff /\ client.backoff <= 60

\* The task sleeps for the eighth time in a row: the two sleeps past the
\* sixth are held at the cap.
C12_Witness_SleepAtCap ==
    /\ client.pc = "sleep"
    /\ Len(client.sleeps) = 8
    /\ client.sleeps[7] = 60
    /\ client.sleeps[8] = 60

\* C13: a message that is not valid JSON is skipped: it enqueues no work
\* item, and the session it came on stays open for the next message.
C13_InvalidJsonKeepsSession ==
    client.event = "not_json" => client.pc = "recv" /\ client.enqueued = 0

\* asyncio.Queue(): maxsize defaults to 0, which asyncio reads as "no
\* limit".
DOMAIN_QUEUE_MAXSIZE == 0

\* Queue.full(): never true of a queue whose maxsize is not positive.
\* put() waits only while full() holds.
queue_full(q, maxsize) == maxsize > 0 /\ Len(q) >= maxsize

\* The capacity the work queue is held against: any finite number below
\* the number of items the stream can deliver.
QueueCapacity == 3

\* C11: the work queue is bounded: it never holds more than a finite
\* capacity of items, and once it holds that many it is full, so that the
\* client's put waits for a worker to dequeue.
C11_WorkQueueBounded ==
    /\ Len(domain_queue) <= QueueCapacity
    /\ Len(domain_queue) >= QueueCapacity
           => queue_full(domain_queue, DOMAIN_QUEUE_MAXSIZE)

(***************************************************************************)
(* SpecItem: the worker pool on a queue that holds two work items from the *)
(* start: one of ItemPool, then one of a certificate for *.ab.  The writer *)
(* task, which neither task of the pool waits for, does not run: the alert *)
(* records stay on log_queue.                                              *)
(***************************************************************************)

\* A leaf_cert whose "extensions" is null.
NullExtensionsCert == [EmptyCert EXCEPT !.extensions_null = TRUE]

\* The work item process_message makes of a name.
ItemOf(domain, cert) ==
    [domain |-> Lstrip(domain, {"*", "."}), issuer |-> "Let's Encrypt",
     timestamp |-> 1, cert |-> cert]

ItemPool ==
    {ItemOf(N_wild_ab, ShortLivedCert), ItemOf(N_wild_ab, NullExtensionsCert),
     ItemOf(N_a_b, EmptyCert), ItemOf(N_ip, EmptyCert)}

ItemInit ==
    /\ BRAND_DOMAINS = PipelineBrands
    /\ \E first \in ItemPool :
           domain_queue = <<first, ItemOf(N_wild_ab, ShortLivedCert)>>
    /\ unfinished_tasks = 2
    /\ log_queue = <<>>
    /\ seen_alerts = <<>>
    /\ whois_cache = EmptyDict
    /\ sync_whois_memo = EmptyDict
    /\ permutations_cache = EmptyDict
    /\ perm_call = [w \in Workers |-> None]
    /\ workers = [w \in Workers |-> FreshWorker]
    /\ writer = FreshWriter
    /\ csv_file = import_file(NoFile)
    /\ received = 0
    /\ emitted = <<>>
    /\ suppressed = {}
    /\ item_max = NoCounts
    /\ done = {}
    /\ faults = 0
    /\ ScoreIdle /\ SimIdle /\ PmIdle /\ ClientIdle /\ WhoisIdle

ItemNext ==
    \/ \E w \in Workers : WorkerGet(w)
    \/ \E w \in Workers : WorkerPermDone(w)
    \/ \E w \in Workers, age \in WhoisAges : WorkerWhoisDone(w, age)
    \/ \E d \in DOMAIN whois_cache : WhoisExpire(d)

SpecItem == ItemInit /\ [][ItemNext]_vars

\* C14: an error raised while processing a work item never ends a worker:
\* every process_worker task is alive in every state, and the item that
\* raised is marked done (it is in the history of finished items) before
\* the task takes the next one.
C14_WorkersSurviveErrors ==
    /\ \A w \in Workers : workers[w].pc # "dead"
    /\ \A w \in Workers :
           workers[w].after_raise => \E s \in done : s.raised

\* A task whose last item was ended by an exception has taken the next
\* item and waits for that item's WHOIS lookup.
C14_Witness_NextItemAfterError ==
    \E w \in Workers :
        /\ workers[w].after_raise
        /\ workers[w].pc = "whois"
        /\ workers[w].item.cert = ShortLivedCert

\* The terminal dispositions of a finished item s.
\*   skipped: the input was rejected (no call of get_permutations and no
\*            candidate) or get_permutations raised
\*   clean: candidates were screened and none crossed the threshold
\*   logged: at least one alert record was enqueued
\*   suppressed: some candidate crossed the threshold, and no alert was
\*            enqueued because every such pair was in seen_alerts
\*   aborted: an exception ended the item before any alert
Skipped(s) == s.perm = "raised" \/ (s.perm = "none" /\ ~s.only_self)
Clean(s) == s.processed >= 1 /\ s.lookups = 0 /\ ~s.raised
Logged(s) == s.alerts >= 1
Suppressed(s) == s.lookups >= 1 /\ s.alerts = 0 /\ ~s.raised
Aborted(s) == s.raised /\ s.alerts = 0

\* The number of truth values of the sequence bs that are TRUE.
CountTrue(bs) == Cardinality({i \in 1..Len(bs) : bs[i]})

\* C15 (as stated): every finished work item is exactly one of skipped,
\* clean and logged.
C15_OneOfThreeDispositions ==
    \A s \in done : CountTrue(<<Skipped(s), Clean(s), Logged(s)>>) = 1

\* C15 (amended): every finished work item is exactly one of skipped,
\* clean, logged, suppressed and aborted; an item is suppressed only after
\* some alert was enqueued, and an item that is skipped or clean has
\* enqueued none.
C15_OneOfFiveDispositions ==
    \A s \in done :
        /\ CountTrue(<<Skipped(s), Clean(s), Logged(s), Suppressed(s),
                       Aborted(s)>>) = 1
        /\ Suppressed(s) => Len(emitted) >= 1
        /\ (Skipped(s) \/ Clean(s)) => s.alerts = 0

\* The two items of one certificate have both finished: one was logged,
\* the other suppressed.
C15_Witness_LoggedAndSuppressed ==
    /\ \E s \in done : Logged(s)
    /\ \E s \in done : Suppressed(s)
    /\ \A w \in Workers : workers[w].pc = "get"
    /\ domain_queue = <<>>

(***************************************************************************)
(* SpecAdmit: the worker pool on a queue that holds one work item, whose   *)
(* domain lies on one side or the other of a rule of lines 110-125.        *)
(***************************************************************************)

\* Names at the limits of lines 119-121.
N_labels10 == [i \in 1..19 |-> IF i % 2 = 1 THEN "a" ELSE "."]
N_labels11 == [i \in 1..21 |-> IF i % 2 = 1 THEN "a" ELSE "."]
N_len120 == [i \in 1..120 |-> IF i = 61 THEN "." ELSE "a"]
N_len121 == [i \in 1..121 |-> IF i = 61 THEN "." ELSE "a"]
N_label63 == [i \in 1..63 |-> "a"]
N_label64 == [i \in 1..64 |-> "a"]

\* A name with a trailing dot, whose last label is empty, and a name that
\* ends with a newline.
N_ab_dot == <<"a", "b", ".">>
N_ab_nl == <<"a", "b", "\n">>

AdmitPool ==
    {ItemOf(d, ShortLivedCert) :
        d \in {N_wild_ab, N_a_b, N_ip, N_labels10, N_labels11, N_len120,
               N_len121, N_label63, N_label64, N_ab_dot, N_ab_nl}}

AdmitInit ==
    /\ BRAND_DOMAINS = PipelineBrands
    /\ \E item \in AdmitPool : domain_queue = <<item>>
    /\ unfinished_tasks = 1
    /\ log_queue = <<>>
    /\ seen_alerts = <<>>
    /\ whois_cache = EmptyDict
    /\ sync_whois_memo = EmptyDict
    /\ permutations_cache = EmptyDict
    /\ perm_call = [w \in Workers |-> None]
    /\ workers = [w \in Workers |-> FreshWorker]
    /\ writer = FreshWriter
    /\ csv_file = import_file(NoFile)
    /\ received = 0
    /\ emitted = <<>>
    /\ suppressed = {}
    /\ item_max = NoCounts
    /\ done = {}
    /\ faults = 0
    /\ ScoreIdle /\ SimIdle /\ PmIdle /\ ClientIdle /\ WhoisIdle

SpecAdmit == AdmitInit /\ [][ItemNext]_vars

\* The four rules as the claim words them: the name is longer than 120,
\* has a label longer than 63, has more than 10 labels, or has a label
\* that holds a character outside [A-Za-z0-9-].
BreaksARule(d) ==
    LET labels == Split(d)
    IN  \/ Len(d) > 120
        \/ \E i \in 1..Len(labels) : Len(labels[i]) > 63
        \/ Len(labels) > 10
        \/ \E i \in 1..Len(labels) :
               \E j \in 1..Len(labels[i]) : labels[i][j] \notin LabelChars

\* C16: a work item asks the permutation client if and only if its domain
\* is not an IP literal and breaks none of the four rules; an item that
\* breaks one makes no permutation call, no WHOIS lookup and no alert; an
\* IP-literal item has the address as its only candidate.
C16_PermutationCallIffValid ==
    /\ \A w \in Workers :
           workers[w].pc = "perm" =>
               ~IsIPLiteral(workers[w].domain) /\ ~BreaksARule(workers[w].domain)
    /\ \A s \in done :
           /\ s.perm # "none"
                  <=> (~IsIPLiteral(s.domain) /\ ~BreaksARule(s.domain))
           /\ (~IsIPLiteral(s.domain) /\ BreaksARule(s.domain))
                  => s.processed = 0 /\ s.lookups = 0 /\ s.alerts = 0
           /\ IsIPLiteral(s.domain) => s.only_self

\* C17: an item whose get_permutations call failed is skipped: none of its
\* candidates is screened, not even the domain itself, and it makes no
\* WHOIS lookup and no alert; while no item has got further than its
\* fetch, seen_alerts, log_queue and whois_cache are empty; and the worker,
\* which the failure does not end, goes on.
C17_FailedFetchSkipsItem ==
    /\ \A s \in done :
           s.perm = "raised" =>
               /\ s.processed = 0 /\ s.lookups = 0 /\ s.alerts = 0
               /\ ~s.only_self /\ ~s.raised
    /\ (/\ \A s \in done : s.perm = "raised"
        /\ \A w \in Workers : workers[w].pc \in {"get", "perm"})
           => (/\ seen_alerts = <<>> /\ log_queue = <<>> /\ emitted = <<>>
               /\ whois_cache = EmptyDict)
    /\ \A w \in Workers : workers[w].pc \in {"get", "perm", "whois"}

\* The first item's fetch has failed and the item is finished, with
\* nothing alerted so far; the second item is past its own fetch and waits
\* for a WHOIS lookup.
C17_Witness_NextItemAfterFailedFetch ==
    /\ done # {}
    /\ \A s \in done : s.perm = "raised"
    /\ domain_queue = <<>>
    /\ \E w \in Workers : workers[w].pc = "whois"

(***************************************************************************)
(* SpecRetry: one task calls get_permutations, MaxCalls times in all, one  *)
(* call after the other, and pm_log keeps what the call in hand did: an    *)
(* entry per request answered (n its HTTP status, 0 for none) and per      *)
(* sleep ended (n its seconds), with the stage and the attempt.            *)
(***************************************************************************)

RetryInit ==
    /\ permutations_cache = EmptyDict
    /\ perm_call = [c \in Workers |-> None]
    /\ pm_result = [c \in Workers |-> None]
    /\ pm_calls = 0
    /\ pm_log = <<>>
    /\ BRAND_DOMAINS = <<>>
    /\ ScoreIdle /\ SimIdle /\ PipeIdle /\ ClientIdle /\ WhoisIdle

\* What the call in hand is at.
LogEntry(ev, n) ==
    [ev |-> ev, stage |-> perm_call[1][1].stage,
     attempt |-> perm_call[1][1].attempt, n |-> n]

RtCall(d) ==
    /\ perm_call[1] = None
    /\ pm_calls < MaxCalls
    /\ pm_calls' = pm_calls + 1
    /\ pm_log' = <<>>
    /\ PmApply(1, perm_begin(permutations_cache, d),
               d \in DOMAIN permutations_cache)

RtResponse(resp) ==
    /\ perm_call[1] # None
    /\ ~perm_call[1][1].sleeping
    /\ resp \in ResponsesFor(perm_call[1][1])
    /\ PmApply(1, perm_response(perm_call[1][1], permutations_cache, resp),
               FALSE)
    /\ pm_log' = Append(pm_log, LogEntry("request", resp.status))
    /\ UNCHANGED pm_calls

RtWake ==
    /\ perm_call[1] # None
    /\ perm_call[1][1].sleeping
    /\ PmApply(1, perm_wake(perm_call[1][1], permutations_cache), FALSE)
    /\ pm_log' = Append(pm_log, LogEntry("sleep", perm_call[1][1].delay))
    /\ UNCHANGED pm_calls

RetryNext ==
    \/ \E d \in PermKeys : RtCall(d)
    \/ \E resp \in HexResponses \cup FuzzResponses : RtResponse(resp)
    \/ RtWake

SpecRetry == RetryInit /\ [][RetryNext]_vars

\* The places of pm_log that hold a request of the stage.
RequestsOf(stage) ==
    {i \in 1..Len(pm_log) :
        pm_log[i].ev = "request" /\ pm_log[i].stage = stage}

\* The request logged at place i failed: no response, or a status of 400
\* or more.
FailedAt(i) == pm_log[i].n = 0 \/ pm_log[i].n >= 400

\* The call in hand has raised.
CallRaised ==
    /\ perm_call[1] = None
    /\ pm_result[1] # None
    /\ pm_result[1][1].kind = "raise"

\* C18: one call makes at most 3 requests to to_hex and then at most 3 to
\* fuzz; between two attempts of a sub-call it sleeps 1 s after the first
\* and 2 s after the second; no fuzz request comes before a to_hex request
\* that succeeded; and the call raises once a third attempt has failed.
C18_AtMostThreeAttemptsEach ==
    /\ Cardinality(RequestsOf("to_hex")) <= 3
    /\ Cardinality(RequestsOf("fuzz")) <= 3
    /\ \A i \in 1..Len(pm_log) :
           /\ pm_log[i].ev = "request" =>
                  /\ pm_log[i].attempt
                         = Cardinality({j \in RequestsOf(pm_log[i].stage) : j < i})
                  /\ (pm_log[i].attempt > 0 =>
                         /\ pm_log[i - 1].ev = "sleep"
                         /\ pm_log[i - 1].stage = pm_log[i].stage
                         /\ pm_log[i - 1].n = (IF pm_log[i].attempt = 1 THEN 1 ELSE 2))
                  /\ (pm_log[i].attempt = 2 /\ FailedAt(i)) =>
                         (i = Len(pm_log) /\ CallRaised)
           /\ pm_log[i].ev = "sleep" =>
                  /\ i > 1 /\ pm_log[i - 1].ev = "request" /\ FailedAt(i - 1)
                  /\ pm_log[i - 1].stage = pm_log[i].stage
                  /\ pm_log[i - 1].attempt = pm_log[i].attempt
           /\ pm_log[i].stage = "fuzz" =>
                  \E j \in RequestsOf("to_hex") :
                      /\ j < i /\ pm_log[j].n = 200
                      /\ \A k \in RequestsOf("to_hex") : k <= j

\* A call has made six requests, the third of each sub-call after sleeps
\* of 1 s and 2 s, and has raised on the last.
C18_Witness_SixRequestsThenRaise ==
    /\ Cardinality(RequestsOf("to_hex")) = 3
    /\ Cardinality(RequestsOf("fuzz")) = 3
    /\ Len(pm_log) = 10
    /\ CallRaised

\* C19: a 4xx response ends the sub-call: the request it answers is the
\* last one of the call, which raises so that the item is skipped; a 5xx
\* response is followed by another attempt unless it was the third.
C19_ClientErrorIsTerminal ==
    \A i \in 1..Len(pm_log) :
        /\ (pm_log[i].ev = "request" /\ pm_log[i].n \in 400..499)
               => (i = Len(pm_log) /\ CallRaised)
        /\ (pm_log[i].ev = "request" /\ pm_log[i].n \in 500..599
                /\ pm_log[i].attempt < 2)
               => ~(i = Len(pm_log) /\ CallRaised)

(***************************************************************************)
(* SpecWhois: NumCallers tasks call domain_registration_age, MaxLookups    *)
(* times in all, with WHOIS_PERMITS permits in whois_semaphore (the code   *)
(* has 10; the callers outnumber the permits here so that some must wait). *)
(*                                                                         *)
(* wh.value and wh.waiters are the semaphore's _value and _waiters: a      *)
(* waiter is [caller, done], done once a release has handed it a permit.   *)
(* wh.calls[c] is caller c's call:                                         *)
(*   pc   "idle": no call   "waiting": in whois_semaphore.acquire()        *)
(*        "thread": awaiting asyncio.to_thread(_sync_whois, domain)        *)
(*   memo_hit  whether lru_cache had the domain when the thread began      *)
(* wh.runs[d] is history: the runs of the whois binary for d that          *)
(* _sync_whois has seen through.                                           *)
(***************************************************************************)
WHOIS_PERMITS == 2
NumCallers == 3
MaxLookups == 5

Callers == 1..NumCallers
WhoisDomains == {N_ab, N_ba}

IdleCall == [pc |-> "idle", domain |-> <<>>, memo_hit |-> FALSE]

\* A semaphore that never reads as locked.
sem_locked_never(sem) == FALSE

\* Semaphore.locked(): no permit left, or somebody is waiting.
sem_locked(sem) == sem.value = 0 \/ sem.waiters # <<>>

\* Semaphore._wake_up_next(): the first waiter that has no permit yet is
\* given one.
sem_wake_up_next(sem) ==
    LET pending == {i \in 1..Len(sem.waiters) : ~sem.waiters[i].done}
    IN  IF pending = {} THEN sem
        ELSE [sem EXCEPT !.value = @ - 1,
                         !.waiters[SetMin(pending)].done = TRUE]

\* Semaphore.release()
sem_release(sem) == sem_wake_up_next([sem EXCEPT !.value = @ + 1])

\* Caller c's entry leaves _waiters.
sem_remove(sem, c) ==
    [sem EXCEPT !.waiters = SelectSeq(@, LAMBDA e : e.caller # c)]

\* The semaphore's two fields of wh.
SemOf(w) == [value |-> w.value, waiters |-> w.waiters]

\* wh with the semaphore `sem` and caller c's call `call`.
WhWith(sem, c, call) ==
    [wh EXCEPT !.value = sem.value, !.waiters = sem.waiters,
               !.calls[c] = call]

WhoisInit ==
    /\ BRAND_DOMAINS = None
    /\ wh = [value |-> WHOIS_PERMITS, waiters |-> <<>>,
             calls |-> [c \in Callers |-> IdleCall], started |-> 0,
             runs |-> [d \in WhoisDomains |-> 0]]
    /\ sw = None
    /\ whois_cache = EmptyDict
    /\ sync_whois_memo = EmptyDict
    /\ domain_queue = None /\ unfinished_tasks = None
    /\ log_queue = None /\ seen_alerts = None
    /\ workers = None /\ writer = None /\ csv_file = None /\ received = 0
    /\ emitted = None /\ suppressed = None /\ item_max = None
    /\ done = None /\ faults = 0
    /\ ScoreIdle /\ SimIdle /\ PermIdle /\ PmIdle /\ ClientIdle

WhoisFrame ==
    UNCHANGED <<BRAND_DOMAINS, clientVars, scoreVars, simVars, permVars,
                pmVars, domain_queue, unfinished_tasks, log_queue,
                seen_alerts, workers,
                writer, csv_file, received, emitted, suppressed, item_max,
                done, sw>>

\* domain_registration_age(d) up to its first await: a cache hit returns
\* at once; else the caller takes a permit if the semaphore is not locked,
\* and starts the thread, or joins the waiters.
WhCall(c, d) ==
    /\ wh.calls[c].pc = "idle"
    /\ wh.started < MaxLookups
    /\ LET sem == SemOf(wh)
           w == [wh EXCEPT !.started = @ + 1]
       IN  wh' =
               IF d \in DOMAIN whois_cache THEN w
               ELSE IF ~sem_locked(sem)
               THEN [w EXCEPT
                        !.value = @ - 1,
                        !.calls[c] = [pc |-> "thread", domain |-> d,
                                      memo_hit |-> d \in DOMAIN sync_whois_memo]]
               ELSE [w EXCEPT
                        !.waiters = Append(@, [caller |-> c, done |-> FALSE]),
                        !.calls[c] = [pc |-> "waiting", domain |-> d,
                                      memo_hit |-> FALSE]]
    /\ UNCHANGED <<whois_cache, sync_whois_memo, faults>>
    /\ WhoisFrame

\* A waiter that was handed a permit runs again: it leaves _waiters, wakes
\* the next waiter if a permit is free, and starts the thread.
WhGranted(c) ==
    /\ wh.calls[c].pc = "waiting"
    /\ \E i \in 1..Len(wh.waiters) :
           wh.waiters[i].caller = c /\ wh.waiters[i].done
    /\ LET s1 == sem_remove(SemOf(wh), c)
           s2 == IF s1.value > 0 THEN sem_wake_up_next(s1) ELSE s1
           d == wh.calls[c].domain
       IN  wh' = WhWith(s2, c, [pc |-> "thread", domain |-> d,
                                memo_hit |-> d \in DOMAIN sync_whois_memo])
    /\ UNCHANGED <<whois_cache, sync_whois_memo, faults>>
    /\ WhoisFrame

\* The thread is over: _sync_whois returned `age` (a memoized answer if it
\* had one), or to_thread raised and age is -1.  The age is cached and the
\* `async with` block releases the permit.
WhThreadDone(c, age, raised) ==
    /\ wh.calls[c].pc = "thread"
    /\ LET d == wh.calls[c].domain
       IN  /\ (wh.calls[c].memo_hit /\ ~raised) => age = sync_whois_memo[d]
           /\ raised => age = -1
           /\ sync_whois_memo' =
                  IF raised \/ d \in DOMAIN sync_whois_memo
                  THEN sync_whois_memo
                  ELSE DictSet(sync_whois_memo, d, age)
           /\ whois_cache' = DictSet(whois_cache, d, age)
    /\ wh' = [WhWith(sem_release(SemOf(wh)), c, IdleCall) EXCEPT
                 !.runs[wh.calls[c].domain] =
                     IF raised \/ wh.calls[c].memo_hit THEN @ ELSE @ + 1]
    /\ UNCHANGED faults
    /\ WhoisFrame

\* The caller's task is cancelled.  In the thread's await, CancelledError
\* leaves the `async with` block, which releases the permit; in acquire(),
\* the waiter leaves _waiters, and gives back the permit if it had been
\* handed one.
WhCancel(c) ==
    /\ wh.calls[c].pc \in {"thread", "waiting"}
    /\ Fault
    /\ LET sem == SemOf(wh)
           had == \E i \in 1..Len(sem.waiters) :
                      sem.waiters[i].caller = c /\ sem.waiters[i].done
       IN  wh' = WhWith(IF wh.calls[c].pc = "thread" THEN sem_release(sem)
                        ELSE IF had THEN sem_release(sem_remove(sem, c))
                        ELSE sem_remove(sem, c),
                        c, IdleCall)
    /\ UNCHANGED <<whois_cache, sync_whois_memo>>
    /\ WhoisFrame

WhoisNext ==
    \/ \E c \in Callers, d \in WhoisDomains : WhCall(c, d)
    \/ \E c \in Callers : WhGranted(c)
    \/ \E c \in Callers, age \in WhoisAges, raised \in BOOLEAN :
           WhThreadDone(c, age, raised)
    \/ \E c \in Callers : WhCancel(c)
    \/ \E d \in DOMAIN whois_cache : WhoisExpire(d)

SpecWhois == WhoisInit /\ [][WhoisNext]_vars

\* The callers whose _sync_whois is running, and the waiters that hold a
\* permit they have not used yet.
InThread == {c \in Callers : wh.calls[c].pc = "thread"}
HandedOver == {i \in 1..Len(wh.waiters) : wh.waiters[i].done}

SyncWhoisInit ==
    /\ BRAND_DOMAINS = None
    /\ \E run \in WhoisRuns, now \in NowPool, raises \in BOOLEAN :
           /\ (raises => run.failed)
           /\ sw = [run |-> run, now |-> now, thread_raises |-> raises,
                    age |-> None]
    /\ wh = None
    /\ ScoreIdle /\ SimIdle /\ PermIdle /\ PmIdle /\ ClientIdle /\ PipeIdle

\* Lines 71-76 of domain_registration_age: the age is what _sync_whois
\* returns in the thread, or -1 where to_thread raises.
SyncWhoisCall ==
    /\ sw.age = None
    /\ sw' = [sw EXCEPT !.age =
                 Some(IF sw.thread_raises THEN -1
                      ELSE sync_whois(sw.run, sw.now))]
    /\ UNCHANGED <<BRAND_DOMAINS, scoreVars, simVars, permVars, pmVars,
                   pipeVars, clientVars, wh>>

SyncWhoisNext == SyncWhoisCall

SpecSyncWhois == SyncWhoisInit /\ [][SyncWhoisNext]_vars

\* ---- the contract, read off the output independently of the code
\* The value of a line after its first colon.
AfterFirstColon(line) ==
    LET hits == {i \in 1..Len(line) : line[i] = ":"}
    IN  strip(SubSeq(line, SetMin(hits) + 1, Len(line)))

IsCreationLine(line) ==
    IsSubstring(K_CreationDate, line) \/ IsSubstring(K_created, Lower(line))

\* v has the form YYYY-MM-DDTHH:MM:SSZ and names a moment.
IsTimestamp(v) ==
    /\ Len(v) = 20
    /\ \A i \in 1..20 :
          IF i \in {5, 8} THEN v[i] = "-"
          ELSE IF i = 11 THEN v[i] = "T"
          ELSE IF i \in {14, 17} THEN v[i] = ":"
          ELSE IF i = 20 THEN v[i] = "Z"
          ELSE v[i] \in Digits
    /\ strptime(v) # None

\* The lines that carry a creation timestamp, by index.
TimestampLines(run) ==
    IF run.failed THEN {}
    ELSE LET lines == splitlines(run.output)
         IN  {k \in 1..Len(lines) :
                  IsCreationLine(lines[k])
                      /\ IsTimestamp(AfterFirstColon(lines[k]))}

\* The age in whole days the first such line gives.
ExpectedAge(run, now) ==
    LET lines == splitlines(run.output)
        k == SetMin(TimestampLines(run))
    IN  timedelta_days(now, strptime(AfterFirstColon(lines[k]))[1])

\* C21: a finished lookup returns the age in whole days (>= 0) when the
\* output has a creation line whose value after the first colon is a
\* timestamp, and -1 when the run failed or has no such line; it returns
\* nothing else.
C21_AgeFromCreationLine ==
    sw.age # None =>
        IF TimestampLines(sw.run) # {} /\ ~sw.thread_raises
        THEN sw.age[1] >= 0 /\ sw.age[1] = ExpectedAge(sw.run, sw.now)
        ELSE sw.age[1] = -1

(***************************************************************************)
(* The alert file, checked under Spec.                                     *)
(***************************************************************************)

\* The row holds, under each column of the header, the value that column
\* names: the candidate, the brand is_similar gives for it and its
\* similarity to two decimals, the features of the candidate's name, three
\* booleans of the certificate, and the score of exactly these values.
RowConforms(row) ==
    /\ Len(row) = Len(HEADER)
    /\ LET d == Column(row, "domain")
           r == is_similar(d)
           parts == Split(d)
       IN  /\ Column(row, "timestamp") \in Nat
           /\ r[1]
           /\ Column(row, "brand_match") = r[2]
           /\ Column(row, "similarity_score") = Format2(r[3])
           /\ Column(row, "issuer") \in {"Let's Encrypt", "Unknown"}
           /\ Column(row, "tld") = parts[Len(parts)]
           /\ Column(row, "tld_suspicious") = (parts[Len(parts)] \in TLD_SUSPICIOUS)
           /\ Column(row, "has_keyword") = contains_suspicious_word(d)
           /\ Column(row, "entropy") = calculate_entropy(d)
           /\ Column(row, "registration_days") \in Int
           /\ Column(row, "cn_mismatch") \in BOOLEAN
           /\ Column(row, "ocsp_missing") \in BOOLEAN
           /\ Column(row, "short_lived") \in BOOLEAN
           /\ Column(row, "brand_in_subdomain") = has_brand_in_subdomain(d)
           /\ Column(row, "score") =
                  phishing_score(Column(row, "entropy"),
                                 Column(row, "has_keyword"),
                                 Column(row, "tld_suspicious"),
                                 Column(row, "issuer"),
                                 Some(Column(row, "registration_days")),
                                 r[3],
                                 Column(row, "cn_mismatch"),
                                 Column(row, "ocsp_missing"),
                                 Column(row, "short_lived"),
                                 Column(row, "brand_in_subdomain"))

\* The row is the header row: 15 strings, the column names in order.
IsHeaderRow(row) == row.kind = "names" /\ row.cells = HEADER

\* The row is a row of values that conforms to the header.
IsDataRow(row) == row.kind = "values" /\ RowConforms(row.cells)

\* C22: a file that is not empty begins with the header row and holds it
\* once; the header is written only at startup and only to a file that is
\* missing or empty; every other change of the file is the append of one
\* row of 15 fields in the header's column order.
C22_HeaderOnceThenRows ==
    /\ [](csv_file.lines # <<>> =>
             /\ IsHeaderRow(csv_file.lines[1])
             /\ \A i \in 2..Len(csv_file.lines) :
                    ~IsHeaderRow(csv_file.lines[i]))
    /\ [][csv_file'.lines # csv_file.lines =>
             \/ /\ ~csv_file.started
                /\ ~csv_file.exists \/ csv_file.lines = <<>>
                /\ Len(csv_file'.lines) = 1
                /\ IsHeaderRow(csv_file'.lines[1])
             \/ /\ csv_file.started
                /\ Len(csv_file'.lines) = Len(csv_file.lines) + 1
                /\ SubSeq(csv_file'.lines, 1, Len(csv_file.lines))
                       = csv_file.lines
                /\ IsDataRow(csv_file'.lines[Len(csv_file'.lines)])]_vars

\* The file of an earlier run was found at startup and left as it was, and
\* a row of this run has been appended to it.
C22_Witness_AppendedToKeptFile ==
    /\ csv_file.started
    /\ csv_file.kept = 2
    /\ Len(csv_file.lines) > 2

\* The alert records of this run by where they are.
InLogQueue == Len(log_queue)
BeingWritten == IF writer.pc = "write" THEN 1 ELSE 0

\* C23: a write that fails is logged and changes nothing else: the file
\* stays as it was, the record is neither written nor put back on the
\* queue, and the writer goes on with the oldest record of the queue, or
\* waits for one; so every alert enqueued is at any time queued, being
\* written, written or lost, and the writer task never ends.
C23_FailedWriteLosesOneRecord ==
    /\ [](/\ writer.pc \in {"get", "write"}
          /\ Len(emitted) = InLogQueue + BeingWritten + Len(RowsWritten)
                                + Len(writer.lost))
    /\ [][writer'.lost # writer.lost =>
             /\ writer.pc = "write"
             /\ writer'.lost = Append(writer.lost,
                                      [row |-> writer.entry[1],
                                       at |-> Len(csv_file.lines)])
             /\ csv_file' = csv_file
             /\ IF log_queue = <<>>
                THEN writer'.pc = "get" /\ log_queue' = <<>>
                ELSE /\ writer'.pc = "write"
                     /\ writer'.entry = Some(Head(log_queue))
                     /\ log_queue' = Tail(log_queue)]_vars

\* A write has failed, and the record enqueued after the lost one has been
\* written to the file since.
C23_Witness_NextRowWrittenAfterLoss ==
    /\ writer.lost # <<>>
    /\ Len(csv_file.lines) > writer.lost[1].at
    /\ writer.pc = "get"

(***************************************************************************)
(* SpecShutdown: the workers and the writer with two work items of one     *)
(* certificate queued, and a SIGINT or SIGTERM at any moment.  main()      *)
(* (lines 225-229) installs no signal handler and no task puts the None    *)
(* that process_worker's line 52 looks for.  On SIGINT asyncio.run cancels *)
(* main(), whose gather cancels every task: CancelledError is raised at    *)
(* the await the task is blocked in, and neither `except Exception` of     *)
(* process_domain and process_worker catches it.  SIGTERM ends the process *)
(* at once.  Either way a write whose thread is running has appended its   *)
(* row or has not, and nothing else runs any more.                         *)
(***************************************************************************)

ShutdownInit ==
    /\ BRAND_DOMAINS = PipelineBrands
    /\ domain_queue = <<ItemOf(N_wild_ab, ShortLivedCert),
                        ItemOf(N_ab_B, ShortLivedCert)>>
    /\ unfinished_tasks = 2
    /\ log_queue = <<>>
    /\ seen_alerts = <<>>
    /\ whois_cache = EmptyDict
    /\ sync_whois_memo = EmptyDict
    /\ permutations_cache = EmptyDict
    /\ perm_call = [w \in Workers |-> None]
    /\ workers = [w \in Workers |-> FreshWorker]
    /\ writer = FreshWriter
    /\ csv_file = import_file(NoFile)
    /\ received = 0
    /\ emitted = <<>>
    /\ suppressed = {}
    /\ item_max = NoCounts
    /\ done = {}
    /\ faults = 0
    /\ ScoreIdle /\ SimIdle /\ PmIdle /\ ClientIdle /\ WhoisIdle

\* The process has been told to stop.
Terminated == writer.pc = "cancelled"

\* The signal arrives.  `written` tells whether the write in flight, if
\* there is one, reached the file.
Interrupt(written) ==
    /\ ~Terminated
    /\ written => writer.pc = "write"
    /\ workers' = [w \in Workers |-> [workers[w] EXCEPT !.pc = "cancelled"]]
    /\ writer' = [writer EXCEPT !.pc = "cancelled",
                                !.entry = IF written THEN None ELSE @]
    /\ csv_file' = IF written THEN append_row(csv_file, writer.entry[1])
                   ELSE csv_file
    /\ unfinished_tasks' = cancelled_task_done(unfinished_tasks, NumWorkers)
    /\ UNCHANGED <<BRAND_DOMAINS, clientVars, whoisVars, scoreVars, simVars,
                   permVars, pmVars, domain_queue, log_queue,
                   seen_alerts,
                   whois_cache, sync_whois_memo, received, emitted,
                   suppressed, item_max, done, faults>>

ShutdownNext ==
    \/ \E w \in Workers : WorkerGet(w)
    \/ \E w \in Workers : WorkerPermDone(w)
    \/ \E w \in Workers, age \in WhoisAges : WorkerWhoisDone(w, age)
    \/ WriterGet
    \/ \E ok \in BOOLEAN : WriterDone(ok)
    \/ \E written \in BOOLEAN : Interrupt(written)

SpecShutdown == ShutdownInit /\ [][ShutdownNext]_vars

\* C24: once the process has been told to stop and has ended, every worker
\* had finished the item it held, and every alert record that was enqueued
\* has been written to the file (or its write has failed and was logged):
\* none is left on the queue or in the writer's hands.
C24_ShutdownDrainsAlerts ==
    Terminated =>
        /\ \A w \in Workers : workers[w].item = None
        /\ log_queue = <<>>
        /\ writer.entry = None
        /\ Len(emitted) = Len(RowsWritten) + Len(writer.lost)

(***************************************************************************)
(* Deduplication and the writer, checked under Spec.                       *)
(***************************************************************************)

\* The alert records enqueued and not yet appended to the file.
NotYetWritten ==
    log_queue \o (IF writer.pc = "write" THEN writer.entry ELSE <<>>)

\* The last n elements of the sequence s.
Suffix(s, n) == SubSeq(s, Max(1, Len(s) - n + 1), Len(s))

\* C25 (as claimed): the pair of every alert was absent from seen_alerts
\* when it was admitted, and the pair of every record that is enqueued and
\* not yet appended to the file is in seen_alerts.
C25_PairKeptUntilWritten ==
    /\ \A i, j \in 1..Len(emitted) :
           (i < j /\ j - i <= SEEN_MAXLEN) => emitted[i] # emitted[j]
    /\ \A i \in 1..Len(NotYetWritten) :
           key_in_seen(seen_alerts, KeyOf(NotYetWritten[i]))

\* C25 (amended): the pair of every alert was absent from seen_alerts when
\* it was admitted and joins it in the step that enqueues the record; it
\* stays until SEEN_MAXLEN later pairs have been admitted, and is gone
\* after that, whether or not its row has been written: seen_alerts is at
\* any time the last SEEN_MAXLEN pairs admitted.
C25_PairKeptForWindow ==
    /\ \A i, j \in 1..Len(emitted) :
           (i < j /\ j - i <= SEEN_MAXLEN) => emitted[i] # emitted[j]
    /\ seen_alerts = Suffix(emitted, SEEN_MAXLEN)
    /\ \A i \in 1..Len(NotYetWritten) :
           \E k \in 1..Len(emitted) :
               /\ emitted[k] = KeyOf(NotYetWritten[i])
               /\ (Len(emitted) - k < SEEN_MAXLEN
                       => key_in_seen(seen_alerts, emitted[k]))

\* A record is still on the way to the file and its pair has already left
\* seen_alerts, pushed out by SEEN_MAXLEN later pairs.
C25_Witness_EvictedBeforeWritten ==
    /\ Len(emitted) > SEEN_MAXLEN
    /\ \E i \in 1..Len(NotYetWritten) :
           ~key_in_seen(seen_alerts, KeyOf(NotYetWritten[i]))

(***************************************************************************)
(* SpecCnMismatch: the CN mismatch block of extract_features (lines        *)
(* 475-508) applied to one leaf_cert as it arrives: "subject" a dict, a    *)
(* list of dicts or absent; extensions.subjectAltName a string, a list or  *)
(* absent; all_domains a list.                                             *)
(***************************************************************************)

K_DNS == <<"D", "N", "S", ":">>

\* s.replace(p, "")
RECURSIVE Remove(_, _)
Remove(s, p) ==
    IF Len(s) < Len(p) \/ p = <<>> THEN s
    ELSE IF StartsWith(s, p) THEN Remove(SubSeq(s, Len(p) + 1, Len(s)), p)
    ELSE <<s[1]>> \o Remove(Tail(s), p)

\* Lines 479-483: common_name.
common_name(cert) ==
    IF cert.subject.kind \in {"absent", "empty_list"} THEN <<>>
    ELSE IF cert.subject.cn = None THEN <<>>
    ELSE cert.subject.cn[1]

\* Lines 486-494: the list `san`.
san_list(cert) ==
    LET raw == cert.subjectAltName
        with_dns(items) == SelectSeq(items, LAMBDA d : IsSubstring(K_DNS, d))
    IN  IF raw.kind = "str"
        THEN LET first == [i \in 1..Len(with_dns(SplitBy(raw.text, ","))) |->
                              strip(with_dns(SplitBy(raw.text, ","))[i])]
             IN  [i \in 1..Len(first) |-> strip(Remove(first[i], K_DNS))]
        ELSE IF raw.kind = "list"
        THEN [i \in 1..Len(with_dns(raw.items)) |->
                 strip(Remove(with_dns(raw.items)[i], K_DNS))]
        ELSE <<>>

\* Lines 475-508: cn_mismatch for the leaf_cert.
cn_mismatch_raw(cert) ==
    cn_mismatch_of([EmptyCert EXCEPT !.subject_cn = common_name(cert),
                                     !.san = Some(san_list(cert))])

\* ---- inputs
N_b_ab == <<"b", ".", "a", "b">>

SubjectPool ==
    {[kind |-> "absent", cn |-> None], [kind |-> "empty_list", cn |-> None]}
        \cup {[kind |-> k, cn |-> c] :
                 k \in {"dict", "list"},
                 c \in {None, Some(<<>>), Some(N_ab), Some(N_Ab),
                        Some(N_wild_ab), Some(N_b_ab), Some(N_ba)}}

\* "DNS:ab", "DNS:ba, DNS:*.ab" and "ab" as strings; ["DNS:*.ab"] and
\* ["ab"] as lists; or no subjectAltName.
SanPool ==
    { [kind |-> "absent", text |-> <<>>, items |-> <<>>],
      [kind |-> "str", text |-> K_DNS \o N_ab, items |-> <<>>],
      [kind |-> "str",
       text |-> K_DNS \o N_ba \o <<",", " ">> \o K_DNS \o N_wild_ab,
       items |-> <<>>],
      [kind |-> "str", text |-> N_ab, items |-> <<>>],
      [kind |-> "list", text |-> <<>>, items |-> <<K_DNS \o N_wild_ab>>],
      [kind |-> "list", text |-> <<>>, items |-> <<N_ab>>] }

AllDomainsPool == {<<>>, <<N_ab>>, <<N_wild_ab>>}

LeafCerts ==
    [subject : SubjectPool, subjectAltName : SanPool,
     all_domains : AllDomainsPool]

CnInit ==
    /\ BRAND_DOMAINS = None
    /\ \E cert \in LeafCerts : fx = [cert |-> cert, cn_mismatch |-> None]
    /\ sc_feat = None /\ sc_score = None /\ cand = None /\ inbox = None
    /\ validity = None
    /\ SimIdle /\ PermIdle /\ PmIdle /\ PipeIdle /\ ClientIdle /\ WhoisIdle

CnCall ==
    /\ fx.cn_mismatch = None
    /\ fx' = [fx EXCEPT !.cn_mismatch = Some(cn_mismatch_raw(fx.cert))]
    /\ UNCHANGED <<BRAND_DOMAINS, sc_feat, sc_score, cand, inbox, validity, simVars,
                   permVars,
                   pmVars, pipeVars, clientVars, whoisVars>>

CnNext == CnCall

SpecCnMismatch == CnInit /\ [][CnNext]_vars

\* ---- the rule, read off the certificate independently of the code
\* The names of subjectAltName (its entries that carry the "DNS:" prefix,
\* the prefix removed) and of all_domains.
NamesOf(cert) ==
    LET raw == cert.subjectAltName
        entries == IF raw.kind = "str" THEN SplitBy(raw.text, ",")
                   ELSE IF raw.kind = "list" THEN raw.items ELSE <<>>
        prefixed == {i \in 1..Len(entries) : StartsWith(strip(entries[i]), K_DNS)}
    IN  {strip(SubSeq(strip(entries[i]), Len(K_DNS) + 1, Len(strip(entries[i])))) :
            i \in prefixed}
            \cup Range(cert.all_domains)

\* Lowercased, one leading "*." removed.
Normalized(d) ==
    IF StartsWith(d, <<"*", ".">>) THEN Lower(SubSeq(d, 3, Len(d)))
    ELSE Lower(d)

\* The name `san` matches the common name `cn`.
SanMatches(san, cn) ==
    \/ Normalized(san) = Normalized(cn)
    \/ StartsWith(san, <<"*", ".">>) /\ EndsWith(Normalized(cn), Normalized(san))

\* The subject's CN, empty when there is none.
SubjectCN(cert) ==
    IF cert.subject.cn = None THEN <<>> ELSE cert.subject.cn[1]

\* C26: cn_mismatch is false when the CN is missing or empty and when some
\* name of subjectAltName or all_domains matches the CN; it is true when
\* the CN is non-empty and none matches.
C26_MismatchIffNoNameMatches ==
    fx.cn_mismatch # None =>
        fx.cn_mismatch[1] =
            (/\ SubjectCN(fx.cert) # <<>>
             /\ ~ \E san \in NamesOf(fx.cert) :
                      SanMatches(san, SubjectCN(fx.cert)))

(***************************************************************************)
(* SpecClientLive: certstream_client with the one progress assumption its  *)
(* code relies on: asyncio.sleep(backoff) returns (line 220), the backoff  *)
(* being at most 60 seconds.  Nothing is assumed of the server: a connect  *)
(* may fail or hang, and a session may stay silent.                        *)
(***************************************************************************)

SpecClientLive == ClientInit /\ [][ClientNext]_vars /\ WF_vars(ClientWake)

\* C27: the client task never ends: it is always connecting, reading or
\* sleeping; every failure (connect refused, session lost, message that
\* raises) puts it to sleep and every sleep leads to a new connect; a
\* session closed in order leads to a new connect at once.
C27_ClientNeverEnds ==
    /\ [](client.pc \in {"connect", "recv", "sleep"})
    /\ [](client.event \in {"connect_failed", "lost", "not_json"}
             => client.pc = "sleep")
    /\ [](client.event = "closed" => client.pc = "connect")
    /\ (client.pc = "sleep") ~> (client.pc = "connect")

\* The task connects again after a second failure in a row.
C27_Witness_ReconnectAfterFailures ==
    /\ client.pc = "connect"
    /\ client.event = "woke"
    /\ Len(client.sleeps) >= 2

(***************************************************************************)
(* SpecToCheck: lines 131-151 of process_domain for one work item whose    *)
(* get_permutations call has returned: the set to_check is built, listed   *)
(* and cut, and the candidate loop walks the list.                         *)
(***************************************************************************)

\* The longest list get_permutations returns here.
MaxReturned == 3

\* The names a permutation list is made of (the domain itself can be
\* among them).
ReturnedNames == {N_ab, N_abb, N_abbb, N_ba}

\* The lists get_permutations can return: names, none twice.
ReturnedLists ==
    UNION {{o \in [1..n -> ReturnedNames] :
               \A i, j \in 1..n : i # j => o[i] # o[j]} : n \in 0..MaxReturned}

ToCheckInit ==
    /\ BRAND_DOMAINS = None
    /\ \E domain \in {N_ab, N_ba}, permutations \in ReturnedLists :
           cand = [pc |-> "build", domain |-> domain,
                 permutations |-> permutations, to_check |-> <<>>,
                 idx |-> 0, processed |-> {}, screened |-> <<>>]
    /\ sc_feat = None /\ sc_score = None /\ fx = None /\ inbox = None
    /\ validity = None
    /\ SimIdle /\ PermIdle /\ PmIdle /\ PipeIdle /\ ClientIdle /\ WhoisIdle

ToCheckFrame ==
    UNCHANGED <<BRAND_DOMAINS, sc_feat, sc_score, fx, inbox, validity, simVars, permVars,
                pmVars, pipeVars, clientVars, whoisVars>>

\* Lines 131-140: to_check = {domain}, the permutations added, then
\* list(to_check)[:30].
BuildToCheck ==
    /\ cand.pc = "build"
    /\ \E list \in ToCheckLists(cand.domain, cand.permutations) :
           cand' = [cand EXCEPT !.pc = "loop", !.to_check = list, !.idx = 1]
    /\ ToCheckFrame

\* Lines 143-151: one pass of `for fuzzed_domain in to_check` up to the
\* call of is_similar.
ScreenCandidate ==
    /\ cand.pc = "loop"
    /\ IF cand.idx > Len(cand.to_check) \/ processed_full(cand.processed)
       THEN cand' = [cand EXCEPT !.pc = "done"]
       ELSE LET fuzzed_domain == cand.to_check[cand.idx]
            IN  IF fuzzed_domain \in cand.processed
                THEN cand' = [cand EXCEPT !.idx = @ + 1]
                ELSE cand' = [cand EXCEPT !.idx = @ + 1,
                                      !.processed = @ \cup {fuzzed_domain},
                                      !.screened = Append(@, fuzzed_domain)]
    /\ ToCheckFrame

ToCheckNext == BuildToCheck \/ ScreenCandidate

SpecToCheck == ToCheckInit /\ [][ToCheckNext]_vars

\* The names in the order they are inserted: the domain, then each
\* permutation not inserted before.
RECURSIVE InsertionOrder(_, _)
InsertionOrder(acc, rest) ==
    IF rest = <<>> THEN acc
    ELSE IF rest[1] \in Range(acc) THEN InsertionOrder(acc, Tail(rest))
    ELSE InsertionOrder(Append(acc, rest[1]), Tail(rest))

\* C28: the candidates of a work item are screened in insertion order (the
\* domain, then the permutations as returned): to_check is the first
\* TO_CHECK_LIMIT names of that order and the candidates screened so far
\* are its first names.
C28_ScreenedInInsertionOrder ==
    LET order == InsertionOrder(<<cand.domain>>, cand.permutations)
    IN  cand.pc # "build" =>
            /\ cand.to_check = Take(order, TO_CHECK_LIMIT)
            /\ cand.screened = Take(order, Len(cand.screened))

\* C29: the whois binary runs at most once per domain, whether the
\* lookups of the domain follow one another, overlap, or come after the
\* domain's whois_cache entry has expired (the memo never evicts here: it
\* holds 10,000 domains and there are two).
C29_OneRunPerDomain ==
    \A d \in WhoisDomains : wh.runs[d] <= 1

(***************************************************************************)
(* SpecMessage: process_message (listener.py 190-203) applied to one       *)
(* message, domain_queue empty before it.                                  *)
(***************************************************************************)

\* The most names in all_domains here.
MaxNames == 2

N_wild_wild_ab == <<"*", ".", "*", ".", "a", "b">>
N_dot_ab == <<".", "a", "b">>

\* "ab", "*.ab", "*.*.ab", ".ab", "Ab", "a-b"
AllDomainsNames == {N_ab, N_wild_ab, N_wild_wild_ab, N_dot_ab, N_Ab, N_a_b}

AllDomainsLists == UNION {[1..n -> AllDomainsNames] : n \in 0..MaxNames}

Messages ==
    {[kind |-> "json", message_type |-> t, all_domains |-> names,
      seen |-> 1, issuer_O |-> None, leaf_cert |-> EmptyCert] :
         t \in {"certificate_update", "heartbeat"},
         names \in AllDomainsLists}
      \cup {[kind |-> "text", message_type |-> "", all_domains |-> <<>>,
             seen |-> 0, issuer_O |-> None, leaf_cert |-> EmptyCert]}

MessageInit ==
    /\ BRAND_DOMAINS = None
    /\ \E msg \in Messages : inbox = [msg |-> msg, result |-> None]
    /\ sc_feat = None /\ sc_score = None /\ fx = None /\ cand = None
    /\ validity = None
    /\ SimIdle /\ PermIdle /\ PmIdle /\ PipeIdle /\ ClientIdle /\ WhoisIdle

\* await process_message(message)
MessageCall ==
    /\ inbox.result = None
    /\ inbox' = [inbox EXCEPT !.result = Some(process_message(inbox.msg, <<>>))]
    /\ UNCHANGED <<BRAND_DOMAINS, sc_feat, sc_score, fx, cand, validity,
                   simVars, permVars, pmVars, pipeVars, clientVars, whoisVars>>

MessageNext == MessageCall

SpecMessage == MessageInit /\ [][MessageNext]_vars

\* The name without one leading "*.", if it has one.
WithoutWildcardPrefix(name) ==
    IF StartsWith(name, <<"*", ".">>) THEN SubSeq(name, 3, Len(name))
    ELSE name

\* C30: a certificate_update whose all_domains has n names enqueues n work
\* items, in the order of all_domains, the i-th carrying the i-th name
\* without one leading "*." and otherwise unchanged; a message of another
\* type enqueues nothing.
C30_OneItemPerName ==
    (inbox.result # None /\ inbox.msg.kind = "json") =>
        LET queue == inbox.result[1].queue
            names == inbox.msg.all_domains
        IN  IF inbox.msg.message_type = "certificate_update"
            THEN /\ Len(queue) = Len(names)
                 /\ \A i \in 1..Len(names) :
                        queue[i].domain = WithoutWildcardPrefix(names[i])
            ELSE queue = <<>>

(***************************************************************************)
(* SpecShortLived: the validity block of extract_features (lines 516-536)  *)
(* applied to the not_before and not_after of one leaf_cert as they        *)
(* arrive: absent, a string, an integer or something else (a list);        *)
(* datetime.now() is an input.  Times are taken in one zone.               *)
(***************************************************************************)

\* The date values of a leaf_cert:
\*   kind  "absent" | "str" | "int" | "list"
\*   text  the string        n  the integer
AbsentDate == [kind |-> "absent", text |-> <<>>, n |-> 0]
StrDate(text) == [kind |-> "str", text |-> text, n |-> 0]
IntDate(n) == [kind |-> "int", text |-> <<>>, n |-> n]
ListDate == [kind |-> "list", text |-> <<>>, n |-> 0]

\* bool(v) of `if not_before and not_after`: None, "", 0 and [] are false.
truthy(v) ==
    \/ v.kind = "str" /\ v.text # <<>>
    \/ v.kind = "int" /\ v.n # 0

\* datetime.strptime(s, "%Y-%m-%dT%H:%M:%S"): the format is DATE_FORMAT
\* without its last literal, so s matches it exactly when s followed by
\* "Z" matches DATE_FORMAT.
strptime_iso(s) == strptime(Append(s, "Z"))

\* Lines 522-530: the datetime of v in seconds, or None where strptime or
\* fromtimestamp raises.
to_datetime(v) ==
    IF v.kind = "str"
    THEN (IF strptime_iso(v.text) = None THEN None
          ELSE Some(SecondsOf(strptime_iso(v.text)[1])))
    ELSE IF v.kind = "int" THEN Some(v.n)
    ELSE None

\* Lines 516-536: short_lived.
short_lived_raw(not_before, not_after, now) ==
    IF truthy(not_before) /\ truthy(not_after)
    THEN IF to_datetime(not_before) = None \/ to_datetime(not_after) = None
         THEN FALSE
         ELSE (to_datetime(not_after)[1] - SecondsOf(now)) \div 86400 <= 30
    ELSE FALSE

\* ---- inputs
T_iso_2024_03_15 ==
    <<"2", "0", "2", "4", "-", "0", "3", "-", "1", "5", "T",
      "0", "0", ":", "0", "0", ":", "0", "0">>
T_iso_2024_03_31 ==
    <<"2", "0", "2", "4", "-", "0", "3", "-", "3", "1", "T",
      "2", "3", ":", "5", "9", ":", "5", "9">>
T_iso_2024_04_01 ==
    <<"2", "0", "2", "4", "-", "0", "4", "-", "0", "1", "T",
      "0", "0", ":", "0", "0", ":", "0", "0">>
T_iso_2023_01_01 ==
    <<"2", "0", "2", "3", "-", "0", "1", "-", "0", "1", "T",
      "0", "0", ":", "0", "0", ":", "0", "0">>

\* 2024-03-10T00:00:00 and 2024-06-01T00:00:00 as epoch seconds
E_2024_03_10 == DaysFromCivil(2024, 3, 10) * 86400
E_2024_06_01 == DaysFromCivil(2024, 6, 1) * 86400

\* Absent; ""; four timestamps of the format (14 days, 30 days 23:59:59
\* and 31 days after 2024-03-01, and a year before); a timestamp with "Z"
\* and a date without time; the epochs 0, 2024-03-10 and 2024-06-01; a
\* list.
DateValues ==
    {AbsentDate, StrDate(<<>>), StrDate(T_iso_2024_03_15),
     StrDate(T_iso_2024_03_31), StrDate(T_iso_2024_04_01),
     StrDate(T_iso_2023_01_01), StrDate(T_2024_02_28), StrDate(T_DateOnly),
     IntDate(0), IntDate(E_2024_03_10), IntDate(E_2024_06_01), ListDate}

ShortLivedInit ==
    /\ BRAND_DOMAINS = None
    /\ \E nb \in DateValues, na \in DateValues, now \in NowPool :
           validity = [not_before |-> nb, not_after |-> na, now |-> now,
                       short_lived |-> None]
    /\ sc_feat = None /\ sc_score = None /\ fx = None /\ cand = None
    /\ inbox = None
    /\ SimIdle /\ PermIdle /\ PmIdle /\ PipeIdle /\ ClientIdle /\ WhoisIdle

ShortLivedCall ==
    /\ validity.short_lived = None
    /\ validity' =
           [validity EXCEPT
               !.short_lived = Some(short_lived_raw(validity.not_before,
                                                    validity.not_after,
                                                    validity.now))]
    /\ UNCHANGED <<BRAND_DOMAINS, sc_feat, sc_score, fx, cand, inbox,
                   simVars, permVars, pmVars, pipeVars, clientVars,
                   whoisVars>>

ShortLivedNext == ShortLivedCall

SpecShortLived == ShortLivedInit /\ [][ShortLivedNext]_vars

\* ---- the rule, read off the two values independently of the code
\* s is YYYY-MM-DDTHH:MM:SS: digits and separators in their places.
IsIsoTimestamp(s) ==
    /\ Len(s) = 19
    /\ \A i \in 1..19 :
           IF i \in {5, 8} THEN s[i] = "-"
           ELSE IF i = 11 THEN s[i] = "T"
           ELSE IF i \in {14, 17} THEN s[i] = ":"
           ELSE s[i] \in Digits

\* The value is there and is a timestamp of the format or an epoch
\* integer.
WellFormed(v) ==
    \/ v.kind = "int"
    \/ v.kind = "str" /\ IsIsoTimestamp(v.text)

\* The seconds since 1970 a well-formed value stands for.
InstantOf(v) ==
    IF v.kind = "int" THEN v.n
    ELSE LET num(i, j) == DecimalValue(SubSeq(v.text, i, j))
         IN  DaysFromCivil(num(1, 4), num(6, 7), num(9, 10)) * 86400
                 + num(12, 13) * 3600 + num(15, 16) * 60 + num(18, 19)

\* C31: short_lived is true exactly when not_before and not_after are both
\* present and well-formed and not_after lies at most 30 whole days after
\* now; it is false for missing and malformed dates.
C31_ShortLivedIffWithin30Days ==
    validity.short_lived # None =>
        validity.short_lived[1] =
            (/\ WellFormed(validity.not_before)
             /\ WellFormed(validity.not_after)
             /\ (InstantOf(validity.not_after) - SecondsOf(validity.now))
                    \div 86400 <= 30)

(***************************************************************************)
(* The permutation cache, checked under SpecPerm.                          *)
(***************************************************************************)

\* C32: a call of get_permutations answered from the cache returns the
\* list that the last successful fetch of the same domain returned.
C32_CacheHitRepeatsFetch ==
    [][\A c \in Workers, d \in PermKeys :
           (PmCall(c, d) /\ d \in DOMAIN permutations_cache)
               => pm_result'[c][1].value = pm_log[d].returned[1]]_vars

\* Caller c's call ends in this step by raising.
CallFails(c) ==
    /\ perm_call[c] # None
    /\ perm_call'[c] = None
    /\ pm_result'[c][1].kind = "raise"

\* C33: a call that fails leaves the permutation cache as it was; a domain
\* is in the cache only when a fetch of it has succeeded; and a call for a
\* domain whose fetches have only failed goes to the service again.
C33_FailureLeavesCacheAlone ==
    /\ [](\A d \in DOMAIN permutations_cache : pm_log[d].returned # None)
    /\ [][\A c \in Workers :
              CallFails(c) => permutations_cache' = permutations_cache]_vars
    /\ [][\A c \in Workers, d \in PermKeys :
              (PmCall(c, d) /\ pm_log[d].failed /\ pm_log[d].returned = None)
                  => /\ pm_result'[c] = None
                     /\ perm_call'[c] # None
                     /\ perm_call'[c][1].stage = "to_hex"]_vars

\* After a call for a domain has raised, another call for it has missed
\* the cache, queried the service and succeeded; the other domain's only
\* fetch failed and it is not in the cache.
C33_Witness_RefetchedAfterFailure ==
    \E d \in PermKeys :
        /\ pm_log[d].failed /\ pm_log[d].refetched
        /\ d \in DOMAIN permutations_cache
        /\ \E e \in PermKeys \ {d} :
               pm_log[e].failed /\ e \notin DOMAIN permutations_cache

(***************************************************************************)
(* The lost alert, checked under Spec.  The records reach the writer in    *)
(* the order they were admitted, so the n-th lost record, lost when the    *)
(* file had `at` lines, is the alert number (rows written before it) + n.  *)
(***************************************************************************)

\* The rows this run had written when the file had `at` lines.
RowsBefore(at) == at - Max(csv_file.kept, 1)

\* The place in `emitted` of the n-th lost record.
AdmissionOfLost(n) == RowsBefore(writer.lost[n].at) + n

\* C34: the pair of an alert is in seen_alerts from the step that enqueues
\* its record, and a failed write does not take it out: the pair of a lost
\* record stays in seen_alerts until SEEN_MAXLEN later pairs have been
\* admitted, it is not admitted again within that window, and until it is
\* admitted again no record of it is queued, being written or appended to
\* the file.
C34_LostAlertStaysSuppressed ==
    /\ [](\A n \in 1..Len(writer.lost) :
             LET key == KeyOf(writer.lost[n].row)
                 m == AdmissionOfLost(n)
                 later == {j \in (m + 1)..Len(emitted) : emitted[j] = key}
             IN  /\ m \in 1..Len(emitted) /\ emitted[m] = key
                 /\ \A j \in later : j - m > SEEN_MAXLEN
                 /\ Len(emitted) - m < SEEN_MAXLEN
                        => key_in_seen(seen_alerts, key)
                 /\ later = {} =>
                        /\ \A i \in 1..Len(NotYetWritten) :
                               KeyOf(NotYetWritten[i]) = key
                                   => \E k \in 1..(m - 1) : emitted[k] = key
                        /\ \A i \in 1..Len(RowsWritten) :
                               (i > RowsBefore(writer.lost[n].at)
                                    /\ KeyOf(RowsWritten[i]) = key)
                                   => \E k \in 1..(m - 1) : emitted[k] = key)
    /\ [][writer'.lost # writer.lost =>
             seen_alerts' = seen_alerts /\ emitted' = emitted]_vars

\* The write of the only alert of the run has failed; its pair is still in
\* seen_alerts and has been turned down since it was admitted; both
\* messages are through, nothing is queued or in flight, and the file has
\* no row of this run.
C34_Witness_SuppressedAndNeverWritten ==
    /\ Len(writer.lost) = 1
    /\ Len(emitted) = 1
    /\ key_in_seen(seen_alerts, KeyOf(writer.lost[1].row))
    /\ KeyOf(writer.lost[1].row) \in suppressed
    /\ received = MaxMessages
    /\ domain_queue = <<>> /\ log_queue = <<>>
    /\ writer.pc = "get"
    /\ \A w \in Workers : workers[w].pc = "get"
    /\ RowsWritten = <<>>

\* C35: when the candidate loop of a work item is over, the item's own
\* domain is among the candidates that were screened, however many
\* permutations came back.
C35_OwnDomainScreened ==
    cand.pc = "done" => cand.domain \in Range(cand.screened)

(***************************************************************************)
(* SpecLive: the pipeline under the scheduling its code relies on.  The    *)
(* asyncio event loop runs every task that is ready (a worker or the       *)
(* writer handed an item by get()); every HTTP request ends, by an answer  *)
(* or by its 10 s timeout, and so does every sleep between attempts; the   *)
(* whois subprocess ends, by exit or by its 5 s timeout; the thread that   *)
(* appends a row ends.  Nothing is assumed of the feed: a message may or   *)
(* may not arrive.                                                         *)
(***************************************************************************)

\* Worker w is ready to run: get() has an item to hand it, or the call it
\* awaits (the permutations request, the whois thread) is one that ends.
WorkerReady(w) ==
    \/ workers[w].pc = "get" /\ domain_queue # <<>>
    \/ InFlight(w)

\* What every step of worker w does (WorkerGet, WorkerPermDone,
\* WorkerWhoisDone) and no step of the feed or of the writer does: the
\* worker suspends somewhere else, or an item is marked done.
WorkerMoved(w) ==
    \/ workers'[w] # workers[w]
    \/ unfinished_tasks' < unfinished_tasks

\* The event loop runs worker w when it stays ready.  This is what
\* WF_vars of the worker's three steps says, with WorkerReady(w), their
\* guard, where WF_ has ENABLED, and WorkerMoved(w) for the steps.
WorkerFair(w) == []<>(~WorkerReady(w)) \/ []<><<WorkerMoved(w)>>_vars

Fairness ==
    /\ WF_vars(Startup)
    /\ \A w \in Workers : WorkerFair(w)
    /\ WF_vars(WriterGet)
    /\ WF_vars(\E ok \in BOOLEAN : WriterDone(ok))

SpecLive == Init /\ [][Next]_vars /\ Fairness

\* The workers that hold a work item.
Holding == {w \in Workers : InFlight(w)}

\* The alert records whose append has been attempted.
Attempted == Len(RowsWritten) + Len(writer.lost)

\* C36: every work item put on domain_queue is taken by a worker and
\* marked done once: the items not marked done are at any time those
\* queued and those a worker holds, and the count of unfinished items
\* always returns to zero; every alert record put on log_queue is
\* eventually taken by the writer and its append attempted (the row
\* written or the failure logged).
C36_NothingStaysQueued ==
    /\ [](unfinished_tasks = Len(domain_queue) + Cardinality(Holding))
    /\ (unfinished_tasks > 0) ~> (unfinished_tasks = 0)
    /\ (Len(emitted) > Attempted) ~> (Len(emitted) = Attempted /\ log_queue = <<>>)

\* Both messages are through, their work items are all marked done,
\* nothing is queued, and the alerts they raised were written or lost in
\* a failed write.
C36_Witness_AllDoneAndWritten ==
    /\ received = MaxMessages
    /\ unfinished_tasks = 0 /\ domain_queue = <<>> /\ Holding = {}
    /\ Cardinality(done) >= 2
    /\ log_queue = <<>> /\ writer.pc = "get"
    /\ Len(emitted) >= 2
    /\ Len(emitted) = Len(RowsWritten) + Len(writer.lost)

====
